---------------------------- MODULE Spec2Model ----------------------------
(***************************************************************************)
(* A model of SyncFS (src/src/packages/sync-fs/lib/index.ts): the sync     *)
(* loop, the sync cycle, the control-message handler, init() and close().  *)
(*                                                                         *)
(* SyncFS runs on one JavaScript event loop.  Every async function is a    *)
(* process whose position is held in pc; one action is the code that runs  *)
(* between two awaits (a call's start up to its first await, or the        *)
(* continuation of an await up to the next one).  An awaited collaborator  *)
(* (filesystem, tar, API, mount tools) returns or throws: that is the      *)
(* action's input; the call an action ends on is the pc it moves to.      *)
(*                                                                         *)
(* Times are in milliseconds.  syncInterval, which the code keeps in       *)
(* seconds, is held in milliseconds so that the factors 1.3 and 1.5 stay   *)
(* exact on integers.                                                      *)
(***************************************************************************)
EXTENDS Integers, Sequences, FiniteSets, TLC

(***************************************************************************)
(* Program constants.                                                      *)
(***************************************************************************)
DEFAULT_SYNC_INTERVAL_MIN_S == 10
DEFAULT_SYNC_INTERVAL_MAX_S == 30
MAX_FAILURES_IN_A_ROW == 3
\* the wait of the loop when sync is disabled: 1000 * 60
DisabledWait == 60000

(***************************************************************************)
(* Bounds of the model.                                                    *)
(***************************************************************************)
\* numFails is unbounded in the code; a cycle may fail only below this.
MaxFails == 4
\* the longest time (ms) a loop tick is taken to last
MaxElapsed == 12000
\* the number of one-off copy requests a run may receive
MaxCopies == 1
\* the latest change time of a path in a walk
MaxTime == 2
\* the longest list of paths of a copy request given to this.tar
MaxPaths == 2

Min(a, b) == IF a <= b THEN a ELSE b

(***************************************************************************)
(* Paths of the exclude list are sequences of characters, so that          *)
(* startsWith and includes are computed as the code computes them.         *)
(***************************************************************************)
Tilde == <<"~">>
Dot == <<".">>
Bare == <<"s">>
Hidden == <<".", "c">>
Absolute == <<"/", "d">>
Nested == <<"a", "/", "b">>
Empty == <<>>

Paths == {Tilde, Dot, Bare, Hidden, Absolute, Nested, Empty}

\* the exclude lists of the main specification
ExcludeOptions == {<<>>, <<Tilde, Bare>>}

\* the longest exclude list of the mount specification
MaxExcludes == 2
\* every exclude list over Paths of at most MaxExcludes entries
ExcludeLists == UNION {[1..n -> Paths] : n \in 0..MaxExcludes}

Includes(list, x) == \E i \in 1..Len(list) : list[i] = x

VARIABLES
  env,               \* what the collaborators of this run may answer (fixed by Init)
  exclude,           \* Options.exclude
  readTrackingFile,  \* whether Options.readTrackingFile is given
  syncIntervalMin,   \* ms
  syncIntervalMax,   \* ms
  state,             \* this.state
  numFails,          \* this.numFails
  syncInterval,      \* this.syncInterval, ms
  timeout,           \* this.timeout: NoTimer (unset), or the handle of a timer: its wait and whether it is still pending
  timers,            \* number of pending timers of the runtime that call syncLoop
  stale,             \* the throttle window was open already when the last timer was armed: it ends (after 1.5 s) before that timer fires (after syncIntervalMin at least)
  websocket,         \* this.websocket is assigned
  listener,          \* handleSyncRequest is attached to the websocket
  registered,        \* api.computeServerSyncRegister has returned
  overlay,           \* the unionfs overlay is mounted
  binds,             \* the exclude entries that are bind-mounted
  pc,                \* position of init(), close(), the loop tick, the message-triggered and the direct sync()
  idx,               \* loop index of bindMountExcludes (init) and unmountExcludes (close)
  cyc,               \* locals of the sync cycle each caller runs
  tick,              \* locals of the running loop tick
  store,             \* the 'filesystem-sync' detailed state persisted by the status store
  thr,               \* the throttle of reportState
  tar,               \* this.tar: the compression option given, how the constructor set this.tar, and the arguments the tar primitive got in the last call
  scan,              \* getComputeState: the two walks it was given and what it returned
  copy               \* the one-off copy requests: position of each handler call, its message, the tar call it issued and what it wrote to the websocket

cfgVars == <<env, exclude, readTrackingFile, syncIntervalMin, syncIntervalMax>>
mountVars == <<overlay, binds>>
wsVars == <<websocket, listener, registered>>
timerVars == <<timeout, timers, stale>>
reportVars == <<store, thr>>
fnVars == <<scan, tar>>
vars == <<env, exclude, readTrackingFile, syncIntervalMin, syncIntervalMax, state,
          numFails, syncInterval, timeout, timers, stale, websocket, listener,
          registered, overlay, binds, pc, idx, cyc, tick, store, thr, copy,
          scan, tar>>

\* this.timeout when it is unset (never set, or deleted by close)
NoTimer == [set |-> FALSE, pending |-> FALSE, wait |-> 0]
\* this.timeout after its timer fired: a handle that is no longer pending
Fired == [set |-> TRUE, pending |-> FALSE, wait |-> 0]
\* the handle setTimeout(this.syncLoop, w) returns
Timer(w) == [set |-> TRUE, pending |-> TRUE, wait |-> w]

\* the argument of reportState: {state, extra?, progress?}, its timeout not
\* given (0)
Status(s, x, p) == [state |-> s, extra |-> x, progress |-> p, timeout |-> 0]
\* the argument a with timeout t, in thousandths of a second like
\* syncInterval
Timed(a, t) == [a EXCEPT !.timeout = t]
\* no reportState argument (nothing pending in the throttle, nothing read)
None == Status("", FALSE, 0)
\* a persisted status and who wrote it; NoStatus: nothing is persisted
Stored(a, who) ==
  [state |-> a.state, extra |-> a.extra, progress |-> a.progress,
   timeout |-> a.timeout, by |-> who]
NoStatus == Stored(None, "nobody")

\* the callers that can run a sync cycle: the loop tick, a
\* compute_server_sync_request handler, a direct call of the public sync()
Callers == {"loop", "msg", "direct"}
Procs == Callers \cup {"init", "close"}

\* a manifest api.syncFS returns: whether removeFromCompute and
\* copyFromCompute are non-empty and whether copyFromProjectTar is given
Manifest(r, c, t) ==
  [removeFromCompute |-> r, copyFromCompute |-> c, copyFromProjectTar |-> t]

\* whiteouts: getComputeState found whiteouts; todo: the steps the manifest
\* asks for that are not done yet; did: those done; isActive: as in the code
NoCycle == [whiteouts |-> FALSE, manifest |-> Manifest(FALSE, FALSE, FALSE),
            todo |-> {}, did |-> {}, isActive |-> FALSE]
\* timer: a timer called this syncLoop (not init()); paused: the tick found
\* numFails at the threshold; observed: the status it read back
\* (detailedState)
NoTick == [timer |-> FALSE, paused |-> FALSE, observed |-> NoStatus]

\* positions inside __doSync (between its first and its last await)
DoSyncPcs == {"makeScratchDir", "api", "getComputeState", "writeFile", "syncFS",
              "rmWhiteouts", "rmRemote", "sendFiles", "tarSend", "receiveFiles",
              "rename", "copyFile", "rm", "tarGet"}
\* positions inside sync(): the cycle body and the error logging of its catch
SyncPcs == DoSyncPcs \cup {"logSyncError"}

(***************************************************************************)
(* reportState: a lodash throttle (1.5 s, leading and trailing) around the  *)
(* call that persists the status.  A call outside the window publishes at   *)
(* once and opens the window; a call inside it replaces the pending         *)
(* argument, which is published when the window ends.  A publication that   *)
(* fails (pub = FALSE) is logged and dropped.                               *)
(***************************************************************************)
R_GetComputeState == Timed(Status("get-compute-state", FALSE, 0), 10000)
R_SendState == Timed(Status("send-state-to-project", FALSE, 20), 10000)
R_SendFiles == Status("send-files-to-project", FALSE, 50)
R_ReceiveFiles == Status("receive-files-from-project", FALSE, 70)
R_Cache80 == Status("cache-files-from-project", FALSE, 80)
R_Cache85 == Status("cache-files-from-project", FALSE, 85)
R_Error == Timed(Status("error", TRUE, 0), 60000)
\* the report of the finally block of sync(), iv being this.syncInterval;
\* the runs whose env.timeouts is FALSE do not follow its timeout (nothing
\* in the component reads it)
R_Ready(iv) ==
  Timed(Status("ready", FALSE, 100), IF env.timeouts THEN 3000 + iv ELSE 0)

\* reportState that is not throttled: every call publishes
reportState_Unthrottled(rs, pub) ==
  IF rs = <<>>
    THEN UNCHANGED <<store, thr>>
    ELSE /\ thr' = thr
         /\ store' = IF pub THEN Stored(rs[Len(rs)], "self") ELSE store

\* reportState throttled on the leading edge only: a call inside the window
\* is dropped
reportState_LeadingOnly(rs, pub) ==
  IF rs = <<>> \/ thr.window
    THEN UNCHANGED <<store, thr>>
    ELSE /\ thr' = [window |-> TRUE, pending |-> None]
         /\ store' = IF pub THEN Stored(rs[1], "self") ELSE store

\* reportState called with each element of rs in turn, within one step
reportState(rs, pub) ==
  IF rs = <<>>
    THEN UNCHANGED <<store, thr>>
    ELSE IF thr.window
      THEN /\ thr' = [thr EXCEPT !.pending = rs[Len(rs)]]
           /\ store' = store
      ELSE /\ thr' = [window |-> TRUE,
                      pending |-> IF Len(rs) > 1 THEN rs[Len(rs)] ELSE None]
           /\ store' = IF pub THEN Stored(rs[1], "self") ELSE store

\* the end of the throttle window: the trailing publication
throttleExpires ==
  /\ thr.window
  /\ \E pub \in env.pubs :
       /\ thr' = [window |-> FALSE, pending |-> None]
       /\ store' = IF thr.pending # None /\ pub
                     THEN Stored(thr.pending, "self") ELSE store
  /\ stale' = FALSE
  /\ UNCHANGED <<cfgVars, copy, fnVars, state, numFails, syncInterval, timeout, timers, wsVars,
                 mountVars, pc, idx, cyc, tick>>

\* An operator clears the error of the persisted status.
operatorClears ==
  /\ store.state = "error"
  /\ store.extra
  /\ store' = Stored(Status("ready", FALSE, 100), "operator")
  /\ UNCHANGED <<cfgVars, copy, fnVars, state, numFails, syncInterval, timerVars, wsVars,
                 mountVars, pc, idx, cyc, tick, thr>>

(***************************************************************************)
(* The adaptive interval.                                                  *)
(***************************************************************************)
\* NextInterval growing by the factor of the loop's back-off
NextInterval_Factor(isActive, iv) ==
  IF isActive THEN syncIntervalMin
  ELSE Min(syncIntervalMax, (15 * iv) \div 10)

\* __doSync: reset when the cycle was active, else grow by 1.3 up to the max
NextInterval(isActive, iv) ==
  IF isActive THEN syncIntervalMin
  ELSE Min(syncIntervalMax, (13 * iv) \div 10)

\* Backoff with the factor of an idle cycle
Backoff_IdleFactor(iv) == Min(syncIntervalMax, (13 * iv) \div 10)

\* Backoff without the cap
Backoff_Uncapped(iv) == (15 * iv) \div 10

\* syncLoop's catch: back off by 1.5 up to the max
Backoff(iv) == Min(syncIntervalMax, (15 * iv) \div 10)

\* Wait without the cap
Wait_Uncapped(iv, elapsed) == iv + elapsed

\* syncLoop: the wait of the next tick, elapsed being Date.now() - t0
Wait(iv, elapsed) == Min(syncIntervalMax, iv + elapsed)

\* Date.now() - t0 of a tick that awaited something
Elapsed(c) == IF c = "loop" THEN env.elapsed ELSE {0}

(***************************************************************************)
(* sync() and __doSync().                                                  *)
(***************************************************************************)
\* SyncRejects without the test for a cycle in progress
SyncRejects_NoOverlapTest == state = "closed"

\* SyncRejects without the test for a state other than ready
SyncRejects_NoReadyTest == state = "sync"

\* sync() throws at once: "sync currently in progress" or "can only sync
\* when state is ready"
SyncRejects == state = "sync" \/ state # "ready"

\* sync() passes its tests: state becomes sync and __doSync runs up to
\* its first await, of makeScratchDir.  pc0: pc as the caller leaves it.
StartCycle(c, pc0) ==
  /\ state' = "sync"
  /\ pc' = [pc0 EXCEPT ![c] = "makeScratchDir"]
  /\ cyc' = [cyc EXCEPT ![c] = NoCycle]
  /\ \E pub \in env.pubs : reportState(<<R_GetComputeState>>, pub)

\* FinallyState without the test for closed
FinallyState_NoClosedTest == "ready"

\* FinallyState of a finally block that leaves the state as it is
FinallyState_Keeps == state

\* the finally block of sync(): back to ready unless closed meanwhile
FinallyState == IF state # "closed" THEN "ready" ELSE state

\* End that counts a cycle as a success only if its report is published
End_NeedsReport(c, ok, iv, rs) ==
  \E pub \in env.pubs, e \in Elapsed(c) :
    LET iv2 == IF c = "loop" /\ ~ok THEN Backoff(iv) ELSE iv
    IN /\ numFails' = IF ok /\ pub THEN 0 ELSE numFails
       /\ state' = FinallyState
       /\ reportState(IF state # "closed" THEN Append(rs, R_Ready(iv)) ELSE rs, pub)
       /\ syncInterval' = iv2
       /\ pc' = [pc EXCEPT ![c] = "idle"]
       /\ cyc' = [cyc EXCEPT ![c] = NoCycle]
       /\ IF c = "loop"
            THEN /\ tick' = NoTick
                 /\ timeout' = Timer(Wait(iv2, e))
                 /\ timers' = timers + 1
                 /\ stale' = thr'.window
            ELSE UNCHANGED <<tick, timeout, timers, stale>>
       /\ UNCHANGED <<cfgVars, copy, fnVars, wsVars, mountVars, idx>>

\* sync() ends in caller c: the finally block, then the caller's own
\* continuation (syncLoop's catch and its setTimeout).  ok: __doSync
\* returned; iv: syncInterval as this step has set it so far; rs: the
\* reports this step has made so far.
End(c, ok, iv, rs) ==
  \E pub \in env.pubs, e \in Elapsed(c) :
    LET iv2 == IF c = "loop" /\ ~ok THEN Backoff(iv) ELSE iv
    IN /\ numFails' = IF ok THEN 0 ELSE numFails
       /\ state' = FinallyState
       /\ reportState(IF state # "closed" THEN Append(rs, R_Ready(iv)) ELSE rs, pub)
       /\ syncInterval' = iv2
       /\ pc' = [pc EXCEPT ![c] = "idle"]
       /\ cyc' = [cyc EXCEPT ![c] = NoCycle]
       /\ IF c = "loop"
            THEN /\ tick' = NoTick
                 /\ timeout' = Timer(Wait(iv2, e))
                 /\ timers' = timers + 1
                 /\ stale' = thr'.window
            ELSE UNCHANGED <<tick, timeout, timers, stale>>
       /\ UNCHANGED <<cfgVars, copy, fnVars, wsVars, mountVars, idx>>

\* the steps of __doSync that the manifest decides, in the order of the code
First(todo) ==
  IF "rmWhiteouts" \in todo THEN "rmWhiteouts"
  ELSE IF "rmRemote" \in todo THEN "rmRemote"
  ELSE IF "sendFiles" \in todo THEN "sendFiles"
  ELSE "receiveFiles"

\* the report made before a step starts
StepReport(s) ==
  IF s = "sendFiles" THEN <<R_SendFiles>>
  ELSE IF s = "receiveFiles" THEN <<R_ReceiveFiles>>
  ELSE <<>>

\* __doSync after api.syncFS returned and the steps `did` are done: start
\* the first step of todo (remove, sendFiles or receiveFiles), or set the
\* interval and go on to updateReadTracking (its rename), after which sync()
\* ends
Proceed(c, todo, did, active) ==
  IF todo # {}
    THEN /\ pc' = [pc EXCEPT ![c] = First(todo)]
         /\ cyc' = [cyc EXCEPT ![c].todo = todo, ![c].did = did,
                               ![c].isActive = TRUE]
         /\ \E pub \in env.pubs : reportState(StepReport(First(todo)), pub)
         /\ UNCHANGED <<cfgVars, copy, fnVars, state, numFails, syncInterval, timerVars,
                        wsVars, mountVars, idx, tick>>
    ELSE IF readTrackingFile
      THEN /\ syncInterval' = NextInterval(active, syncInterval)
           /\ pc' = [pc EXCEPT ![c] = "rename"]
           /\ cyc' = [cyc EXCEPT ![c] = NoCycle]
           /\ \E pub \in env.pubs : reportState(<<R_Cache80>>, pub)
           /\ UNCHANGED <<cfgVars, copy, fnVars, state, numFails, timerVars, wsVars,
                          mountVars, idx, tick>>
      ELSE End(c, TRUE, NextInterval(active, syncInterval), <<>>)

\* await this.makeScratchDir() returned; project_client.api() is awaited
doSync_makeScratchDir(c) ==
  /\ pc[c] = "makeScratchDir"
  /\ pc' = [pc EXCEPT ![c] = "api"]
  /\ UNCHANGED <<cfgVars, copy, fnVars, state, numFails, syncInterval, timerVars, wsVars,
                 mountVars, idx, cyc, tick, reportVars>>

\* await this.client.project_client.api() returned; getComputeState (the
\* two tree walks and the stats of the whiteouts) is awaited
doSync_api(c) ==
  /\ pc[c] = "api"
  /\ pc' = [pc EXCEPT ![c] = "getComputeState"]
  /\ UNCHANGED <<cfgVars, copy, fnVars, state, numFails, syncInterval, timerVars, wsVars,
                 mountVars, idx, cyc, tick, reportVars>>

\* await this.getComputeState() returned, with or without whiteouts;
\* writeFile(compute-state.json.lz4) is awaited
doSync_getComputeState(c) ==
  /\ pc[c] = "getComputeState"
  /\ \E w \in env.whiteouts : cyc' = [cyc EXCEPT ![c].whiteouts = w]
  /\ pc' = [pc EXCEPT ![c] = "writeFile"]
  /\ UNCHANGED <<cfgVars, copy, fnVars, state, numFails, syncInterval, timerVars, wsVars,
                 mountVars, idx, tick, reportVars>>

\* await writeFile() returned; api.syncFS() is called and awaited: the
\* manifest the project answers with is on its way
doSync_writeFile(c) ==
  /\ pc[c] = "writeFile"
  /\ pc' = [pc EXCEPT ![c] = "syncFS"]
  /\ \E m \in env.manifests : cyc' = [cyc EXCEPT ![c].manifest = m]
  /\ \E pub \in env.pubs : reportState(<<R_SendState>>, pub)
  /\ UNCHANGED <<cfgVars, copy, fnVars, state, numFails, syncInterval, timerVars, wsVars,
                 mountVars, idx, tick>>

\* doSync_syncFS that pushes whether copyFromCompute is empty or not
doSync_syncFS_AlwaysSends(c) ==
  /\ pc[c] = "syncFS"
  /\ LET m == cyc[c].manifest
     IN Proceed(c,
                (IF cyc[c].whiteouts THEN {"rmWhiteouts"} ELSE {})
                  \cup (IF m.removeFromCompute THEN {"rmRemote"} ELSE {})
                  \cup {"sendFiles"}
                  \cup (IF m.copyFromProjectTar THEN {"receiveFiles"} ELSE {}),
                {}, FALSE)

\* await api.syncFS() returned the manifest
doSync_syncFS(c) ==
  /\ pc[c] = "syncFS"
  /\ LET m == cyc[c].manifest
     IN Proceed(c,
                (IF cyc[c].whiteouts THEN {"rmWhiteouts"} ELSE {})
                  \cup (IF m.removeFromCompute THEN {"rmRemote"} ELSE {})
                  \cup (IF m.copyFromCompute THEN {"sendFiles"} ELSE {})
                  \cup (IF m.copyFromProjectTar THEN {"receiveFiles"} ELSE {}),
                {}, FALSE)

\* the call a cycle awaits at position s: remove on a root, or tar.get /
\* tar.send with the file list of createArgs' --files-from and with
\* extractArgs (sendFiles, receiveFiles, updateReadTracking)
Call(s) ==
  CASE s = "rmWhiteouts" ->
         [fn |-> "remove", arg |-> "upper/.unionfs-fuse", extractArgs |-> <<>>]
    [] s = "rmRemote" ->
         [fn |-> "remove", arg |-> "upper", extractArgs |-> <<>>]
    [] s = "tarSend" ->
         [fn |-> "tar.send", arg |-> "copy-to-project",
          extractArgs |-> <<"--delay-directory-restore", "-x">>]
    [] s = "receiveFiles" ->
         [fn |-> "tar.get", arg |-> "copyFromProjectTar",
          extractArgs |-> <<"--delay-directory-restore", "-x">>]
    [] s = "tarGet" ->
         [fn |-> "tar.get", arg |-> "read-tracking",
          extractArgs |-> <<"--keep-newer-files", "-x">>]
    [] OTHER -> [fn |-> "", arg |-> "", extractArgs |-> <<>>]

\* the step of the manifest that the cycle of c is in
StepOf(c) == IF pc[c] = "tarSend" THEN "sendFiles" ELSE pc[c]

\* await remove(whiteouts), remove(removeFromCompute), tar.send (of
\* sendFiles) or tar.get (of receiveFiles) returned
doSync_step(c) ==
  /\ pc[c] \in {"rmWhiteouts", "rmRemote", "tarSend", "receiveFiles"}
  /\ Proceed(c, cyc[c].todo \ {StepOf(c)}, cyc[c].did \cup {StepOf(c)},
             cyc[c].isActive)

\* sendFiles: the file list is written (open, write, close); tar.send is
\* awaited
doSync_sendFiles(c) ==
  /\ pc[c] = "sendFiles"
  /\ pc' = [pc EXCEPT ![c] = "tarSend"]
  /\ UNCHANGED <<cfgVars, copy, fnVars, state, numFails, syncInterval, timerVars, wsVars,
                 mountVars, idx, cyc, tick, reportVars>>

\* updateReadTracking_move that ships the file right after the copy, leaving
\* the temporary file
updateReadTracking_move_NoRm(c) ==
  /\ pc[c] \in {"rename", "copyFile"}
  /\ pc' = [pc EXCEPT ![c] = IF pc[c] = "rename" THEN "copyFile" ELSE "tarGet"]
  /\ UNCHANGED <<cfgVars, copy, fnVars, state, numFails, syncInterval, timerVars, wsVars,
                 mountVars, idx, cyc, tick, reportVars>>

\* updateReadTracking: rename, copyFile and rm returned in turn; after rm,
\* tar.get is awaited
updateReadTracking_move(c) ==
  /\ pc[c] \in {"rename", "copyFile", "rm"}
  /\ pc' = [pc EXCEPT ![c] = IF pc[c] = "rename" THEN "copyFile"
                             ELSE IF pc[c] = "copyFile" THEN "rm" ELSE "tarGet"]
  /\ UNCHANGED <<cfgVars, copy, fnVars, state, numFails, syncInterval, timerVars, wsVars,
                 mountVars, idx, cyc, tick, reportVars>>

\* updateReadTracking whose failing await is not caught: the catch of sync()
\* runs
updateReadTracking_end_Uncaught(c) ==
  /\ pc[c] \in {"rename", "copyFile", "rm", "tarGet"}
  /\ numFails < MaxFails
  /\ numFails' = numFails + 1
  /\ pc' = [pc EXCEPT ![c] = "logSyncError"]
  /\ \E pub \in env.pubs : reportState(<<R_Cache85, R_Error>>, pub)
  /\ UNCHANGED <<cfgVars, copy, fnVars, state, syncInterval, timerVars, wsVars, mountVars,
                 idx, cyc, tick>>

\* updateReadTracking ends: its tar.get returned, or any of its awaits
\* threw (logged only); its finally reports, __doSync returns
updateReadTracking_end(c) ==
  /\ pc[c] \in {"rename", "copyFile", "rm", "tarGet"}
  /\ End(c, TRUE, syncInterval, <<R_Cache85>>)

\* sync_catch after a __doSync that sets the interval in a finally block
sync_catch_SetsInterval(c) ==
  /\ pc[c] \in DoSyncPcs \ {"rename", "copyFile", "rm", "tarGet"}
  /\ numFails < MaxFails
  /\ c \in env.throwers
  /\ numFails' = numFails + 1
  /\ syncInterval' = NextInterval(cyc[c].isActive, syncInterval)
  /\ pc' = [pc EXCEPT ![c] = "logSyncError"]
  /\ \E pub \in env.pubs : reportState(<<R_Error>>, pub)
  /\ UNCHANGED <<cfgVars, copy, fnVars, state, timerVars, wsVars, mountVars,
                 idx, cyc, tick>>

\* an await of __doSync threw (in this run the awaits of the callers
\* env.throwers may throw): the catch of sync() up to await logSyncError
sync_catch(c) ==
  /\ pc[c] \in DoSyncPcs \ {"rename", "copyFile", "rm", "tarGet"}
  /\ numFails < MaxFails
  /\ c \in env.throwers
  /\ numFails' = numFails + 1
  /\ pc' = [pc EXCEPT ![c] = "logSyncError"]
  /\ \E pub \in env.pubs : reportState(<<R_Error>>, pub)
  /\ UNCHANGED <<cfgVars, copy, fnVars, state, syncInterval, timerVars, wsVars, mountVars,
                 idx, cyc, tick>>

\* await logSyncError() returned (it never throws): sync() rethrows
sync_throw(c) ==
  /\ pc[c] = "logSyncError"
  /\ End(c, FALSE, syncInterval, <<>>)

(***************************************************************************)
(* syncLoop.                                                               *)
(***************************************************************************)
\* sync is disabled by the exclude list
Disabled == Includes(exclude, Tilde) \/ Includes(exclude, Dot)

\* Cleared without a look at the status
Cleared_Always(d) == TRUE

\* the circuit breaker's test of the status read back: the error was cleared
Cleared(d) == d # NoStatus /\ (~d.extra \/ d.state # "error")

\* syncLoop's `await this.sync()` and, when sync() throws at once, the
\* catch and the setTimeout that follow.  pc0, t0, tout0: pc, timers and
\* this.timeout as the caller leaves them; nf: numFails as the tick has set
\* it; tm: the tick was called by a timer; d: the status the tick read.
LoopSync(pc0, t0, tout0, nf, tm, paused, d) ==
  IF SyncRejects
    THEN \E e \in Elapsed("loop") :
           /\ syncInterval' = Backoff(syncInterval)
           /\ timeout' = Timer(Wait(Backoff(syncInterval), e))
           /\ timers' = t0 + 1
           /\ stale' = thr.window
           /\ numFails' = nf
           /\ pc' = [pc0 EXCEPT !["loop"] = "idle"]
           /\ tick' = NoTick
           /\ UNCHANGED <<state, cyc, reportVars>>
    ELSE /\ StartCycle("loop", pc0)
         /\ numFails' = nf
         /\ tick' = [timer |-> tm, paused |-> paused, observed |-> d]
         /\ timeout' = tout0
         /\ timers' = t0
         /\ stale' = stale
         /\ UNCHANGED syncInterval

\* One call of syncLoop, by a timer (tm) or by init(), up to its first await
\* or its end.
syncLoop(pc0, t0, tout0, tm) ==
  IF Disabled
    THEN /\ timeout' = Timer(DisabledWait)
         /\ timers' = t0 + 1
         /\ stale' = thr.window
         /\ pc' = pc0
         /\ UNCHANGED <<state, numFails, syncInterval, cyc, tick, reportVars>>
    ELSE IF state = "ready"
      THEN IF numFails >= MAX_FAILURES_IN_A_ROW
        THEN /\ pc' = [pc0 EXCEPT !["loop"] = "getDetailedState"]
             /\ tick' = [timer |-> tm, paused |-> TRUE, observed |-> NoStatus]
             /\ timeout' = tout0
             /\ timers' = t0
             /\ stale' = stale
             /\ UNCHANGED <<state, numFails, syncInterval, cyc, reportVars>>
        ELSE LoopSync(pc0, t0, tout0, numFails, tm, FALSE, NoStatus)
      ELSE /\ timeout' = Timer(Wait(syncInterval, 0))
           /\ timers' = t0 + 1
           /\ stale' = thr.window
           /\ pc' = pc0
           /\ UNCHANGED <<state, numFails, syncInterval, cyc, tick, reportVars>>

\* timerFires for a timer that repeats: it stays armed when it fires
timerFires_Repeats ==
  /\ timers > 0
  /\ ~stale
  /\ pc["loop"] = "idle"
  /\ syncLoop(pc, timers, Fired, TRUE)
  /\ UNCHANGED <<cfgVars, copy, fnVars, wsVars, mountVars, idx>>

\* a timer armed by syncLoop fires
timerFires ==
  /\ timers > 0
  /\ ~stale
  /\ pc["loop"] = "idle"
  /\ syncLoop(pc, timers - 1, Fired, TRUE)
  /\ UNCHANGED <<cfgVars, copy, fnVars, wsVars, mountVars, idx>>

\* await this.getDetailedState() returned the persisted status
syncLoop_getDetailedState ==
  /\ pc["loop"] = "getDetailedState"
  /\ IF Cleared(store)
       THEN LoopSync(pc, timers, timeout, 0, tick.timer, TRUE, store)
       ELSE \E e \in Elapsed("loop") :
              /\ timeout' = Timer(Wait(syncInterval, e))
              /\ timers' = timers + 1
              /\ stale' = thr.window
              /\ pc' = [pc EXCEPT !["loop"] = "idle"]
              /\ tick' = NoTick
              /\ UNCHANGED <<state, numFails, syncInterval, cyc, reportVars>>
  /\ UNCHANGED <<cfgVars, copy, fnVars, wsVars, mountVars, idx>>

\* await this.getDetailedState() threw: syncLoop's catch
syncLoop_getDetailedStateThrows ==
  /\ pc["loop"] = "getDetailedState"
  /\ \E e \in Elapsed("loop") :
       /\ syncInterval' = Backoff(syncInterval)
       /\ timeout' = Timer(Wait(Backoff(syncInterval), e))
       /\ timers' = timers + 1
       /\ stale' = thr.window
  /\ pc' = [pc EXCEPT !["loop"] = "idle"]
  /\ tick' = NoTick
  /\ UNCHANGED <<cfgVars, copy, fnVars, state, numFails, wsVars, mountVars, idx, cyc, reportVars>>

(***************************************************************************)
(* handleSyncRequest (compute_server_sync_request) and the public sync().  *)
(***************************************************************************)
\* handleSyncRequest starting the cycle without a look at the state
handleSyncRequest_Unguarded ==
  /\ listener
  /\ pc["msg"] = "idle"
  /\ StartCycle("msg", pc)
  /\ UNCHANGED <<cfgVars, copy, fnVars, numFails, syncInterval, timerVars, wsVars,
                 mountVars, idx, tick>>

\* a compute_server_sync_request arrives: ignored when a cycle is in
\* progress; else sync() is called and its error is caught
handleSyncRequest ==
  /\ listener
  /\ IF state = "sync" \/ SyncRejects
       THEN UNCHANGED <<state, pc, cyc, reportVars>>
       ELSE /\ pc["msg"] = "idle"
            /\ StartCycle("msg", pc)
  /\ UNCHANGED <<cfgVars, copy, fnVars, numFails, syncInterval, timerVars, wsVars,
                 mountVars, idx, tick>>

\* sync() is called from outside
sync ==
  /\ IF SyncRejects
       THEN UNCHANGED <<state, pc, cyc, reportVars>>
       ELSE /\ pc["direct"] = "idle"
            /\ StartCycle("direct", pc)
  /\ UNCHANGED <<cfgVars, copy, fnVars, numFails, syncInterval, timerVars, wsVars,
                 mountVars, idx, tick>>

(***************************************************************************)
(* The constructor's compression option and this.tar.  An option value is  *)
(* a JavaScript value: its type and, for a string, number or boolean, its  *)
(* text.                                                                   *)
(***************************************************************************)
Undefined == [type |-> "undefined", text |-> ""]
Null == [type |-> "null", text |-> ""]
String(v) == [type |-> "string", text |-> v]
Number(v) == [type |-> "number", text |-> v]
Boolean(v) == [type |-> "boolean", text |-> v]

Compressions == {Undefined, Null, String(""), String("lz4"), String("gzip"),
                 Number("0"), Number("1"), Boolean("false"), Boolean("true")}

\* !x
Falsy(x) ==
  \/ x.type \in {"undefined", "null"}
  \/ x = String("")
  \/ x = Number("0")
  \/ x = Boolean("false")

\* a destructuring default: it applies when the option is undefined
Default(x, d) == IF x = Undefined THEN d ELSE x

\* Mode that takes every truthy value for lz4
Mode_DefaultsToLz4(option) ==
  LET compression == Default(option, String("lz4"))
  IN IF Falsy(compression) THEN "raw" ELSE "lz4"

\* how the constructor sets this.tar: to the tar primitives (raw), to the
\* lz4 wrappers, or not at all (it throws)
Mode(option) ==
  LET compression == Default(option, String("lz4"))
  IN IF Falsy(compression) THEN "raw"
     ELSE IF compression = String("lz4") THEN "lz4"
     ELSE "throws"

\* alter of the lz4 wrappers
Alter(v) == <<"-I", "lz4">> \o v

\* the arguments the tar primitive gets when this.tar.send or this.tar.get
\* is called with args
Primitive(mode, args) ==
  IF mode = "lz4"
    THEN [args EXCEPT !.createArgs = Alter(args.createArgs),
                      !.extractArgs = Alter(args.extractArgs)]
    ELSE args

\* data.paths of a copy request
PathLists == UNION {[1..n -> {"a.txt", "b"}] : n \in 0..MaxPaths}

\* the arguments the callers of this.tar use: sendFiles, receiveFiles,
\* updateReadTracking and the copy requests (which give HOME)
TarArgs ==
  {[fn |-> "send", HOME |-> FALSE,
    createArgs |-> <<"-c", "--null", "--no-recursion",
                   "--verbatim-files-from", "--files-from", "copy-to-project">>,
    extractArgs |-> <<"--delay-directory-restore", "-x">>],
   [fn |-> "get", HOME |-> FALSE,
    createArgs |-> <<"-c", "--null", "--no-recursion",
                   "--verbatim-files-from", "--files-from", "copyFromProjectTar">>,
    extractArgs |-> <<"--delay-directory-restore", "-x">>],
   [fn |-> "get", HOME |-> FALSE,
    createArgs |-> <<"-c", "--null", "--no-recursion",
                   "--verbatim-files-from", "--files-from", "read-tracking">>,
    extractArgs |-> <<"--keep-newer-files", "-x">>]}
  \cup {[fn |-> fn, HOME |-> TRUE,
         createArgs |-> <<"-c">> \o paths, extractArgs |-> <<"-x">>] :
          fn \in {"get", "send"}, paths \in PathLists}

NoArgs == [fn |-> "", HOME |-> FALSE, createArgs |-> <<>>, extractArgs |-> <<>>]

\* before the constructor has run
NoTar == [mode |-> "", option |-> Undefined, called |-> NoArgs, got |-> NoArgs]

\* the constructor runs with a compression option
constructor_compression ==
  /\ tar.mode = ""
  /\ \E option \in Compressions :
       tar' = [NoTar EXCEPT !.mode = Mode(option), !.option = option]
  /\ UNCHANGED <<cfgVars, copy, scan, state, numFails, syncInterval, timerVars,
                 wsVars, mountVars, pc, idx, cyc, tick, reportVars>>

\* this.tar.send or this.tar.get is called
tar_call ==
  /\ tar.mode \in {"raw", "lz4"}
  /\ \E args \in TarArgs :
       tar' = [tar EXCEPT !.called = args, !.got = Primitive(tar.mode, args)]
  /\ UNCHANGED <<cfgVars, copy, scan, state, numFails, syncInterval, timerVars,
                 wsVars, mountVars, pc, idx, cyc, tick, reportVars>>

(***************************************************************************)
(* getComputeState.  A walk (the answer of mtimeDirTree) maps each path    *)
(* found to its change time; a path is a sequence of characters.           *)
(***************************************************************************)
WhiteSuffix == <<"_", "H", "I", "D", "D", "E", "N", "~">>
whiteLen == Len(WhiteSuffix)

\* path.endsWith(suffix)
EndsWith(path, suffix) ==
  /\ Len(path) >= Len(suffix)
  /\ SubSeq(path, Len(path) - Len(suffix) + 1, Len(path)) = suffix

\* path.slice(0, -n), n > 0
Slice(path, n) == SubSeq(path, 1, Len(path) - n)

\* the paths a walk of the upper layer, and of the whiteout directory, may
\* find: two paths; their markers, a path that is no marker, and the marker
\* of a marker
UpperPaths == {Bare, Nested}
UnionPaths == {Bare \o WhiteSuffix, Nested \o WhiteSuffix, Bare,
               (Bare \o WhiteSuffix) \o WhiteSuffix}
Times == 1..MaxTime
Walks(paths) == UNION {[found -> Times] : found \in SUBSET paths}

\* the markers of a walk of the whiteout directory
Markers(mtimes) == {path \in DOMAIN mtimes : EndsWith(path, WhiteSuffix)}

\* computeState where the entry of the upper layer is kept
computeState_UpperWins(upper, mtimes) ==
  [p \in DOMAIN upper \cup {Slice(path, whiteLen) : path \in Markers(mtimes)} |->
     IF p \in DOMAIN upper
       THEN upper[p]
       ELSE -mtimes[CHOOSE path \in Markers(mtimes) : Slice(path, whiteLen) = p]]

\* the computeState of getComputeState: the walk of the upper layer, with
\* computeState[p] = -mtime assigned for every marker
computeState(upper, mtimes) ==
  [p \in DOMAIN upper \cup {Slice(path, whiteLen) : path \in Markers(mtimes)} |->
     IF \E path \in Markers(mtimes) : Slice(path, whiteLen) = p
       THEN -mtimes[CHOOSE path \in Markers(mtimes) : Slice(path, whiteLen) = p]
       ELSE upper[p]]

\* the whiteouts of getComputeState (as a set): every marker, and the
\* unsuffixed path of every marker that is a directory
whiteouts(mtimes, dirs) ==
  Markers(mtimes) \cup {Slice(path, whiteLen) : path \in Markers(mtimes) \cap dirs}

\* getComputeState has not run
NoScan == [done |-> FALSE, upper |-> <<>>, mtimes |-> <<>>,
           computeState |-> <<>>, whiteouts |-> {}]

\* getComputeState runs on a walk of the upper layer and a walk of the
\* whiteout directory, some of whose entries are directories
getComputeState ==
  /\ ~scan.done
  /\ \E upper \in Walks(UpperPaths), mtimes \in Walks(UnionPaths) :
       \E dirs \in SUBSET Markers(mtimes) :
         scan' = [done |-> TRUE, upper |-> upper, mtimes |-> mtimes,
                  computeState |-> computeState(upper, mtimes),
                  whiteouts |-> whiteouts(mtimes, dirs)]
  /\ UNCHANGED <<cfgVars, copy, tar, state, numFails, syncInterval, timerVars, wsVars,
                 mountVars, pc, idx, cyc, tick, reportVars>>

(***************************************************************************)
(* handleSyncRequest (copy_from_project_to_compute_server and              *)
(* copy_from_compute_server_to_project).  A message is data.event,         *)
(* data.id (absent, or a number: 0 is a number that is falsy) and whether  *)
(* data.paths is given.                                                    *)
(***************************************************************************)
CopyEvents == {"copy_from_project_to_compute_server",
               "copy_from_compute_server_to_project"}

\* data.id when the message has none
NoId == [given |-> FALSE, value |-> 0]
RequestIds == {NoId} \cup {[given |-> TRUE, value |-> v] : v \in {0, 1}}

\* if (data.id)
Truthy(id) == id.given /\ id.value # 0

\* a handler call that has not happened
NoCopy == [pc |-> "idle", event |-> "", id |-> NoId, paths |-> FALSE,
           call |-> "", ok |-> FALSE, acks |-> <<>>]

\* the transfer that is always tar.get
TarCall_AlwaysGet(event) == "tar.get"

\* the transfer a copy event issues
TarCall(event) ==
  IF event = "copy_from_project_to_compute_server" THEN "tar.get" ELSE "tar.send"

\* what the handler writes to the websocket once the transfer has returned
\* (ok) or thrown
Ack(id, ok) ==
  IF Truthy(id) /\ websocket
    THEN <<[id |-> id.value, event |-> IF ok THEN "success" ELSE "error"]>>
    ELSE <<>>

\* a copy message arrives: the spread of data.paths throws outside the try
\* when data.paths is not given; else the transfer is issued
handleSyncRequest_copy(i) ==
  /\ listener
  /\ copy[i].pc = "idle"
  /\ \A j \in 1..(i - 1) : copy[j].pc # "idle"
  /\ \E event \in CopyEvents, id \in RequestIds, paths \in BOOLEAN :
       copy' = [copy EXCEPT ![i] =
                  [pc |-> IF paths THEN "tar" ELSE "thrown",
                   event |-> event, id |-> id, paths |-> paths,
                   call |-> IF paths THEN TarCall(event) ELSE "",
                   ok |-> FALSE, acks |-> <<>>]]
  /\ UNCHANGED <<cfgVars, fnVars, state, numFails, syncInterval, timerVars, wsVars,
                 mountVars, pc, idx, cyc, tick, reportVars>>

\* the transfer returns or throws: the acknowledgment is written
handleSyncRequest_tar(i) ==
  /\ copy[i].pc = "tar"
  /\ \E ok \in BOOLEAN :
       copy' = [copy EXCEPT ![i].pc = "done", ![i].ok = ok,
                            ![i].acks = Ack(copy[i].id, ok)]
  /\ UNCHANGED <<cfgVars, fnVars, state, numFails, syncInterval, timerVars, wsVars,
                 mountVars, pc, idx, cyc, tick, reportVars>>

(***************************************************************************)
(* Excluded directories.                                                   *)
(***************************************************************************)
\* shouldMountExclude without the test for "~"
shouldMountExclude_NoTildeTest(path) ==
  /\ path # <<>>
  /\ path[1] # "."
  /\ path[1] # "/"
  /\ ~Includes(path, "/")

shouldMountExclude(path) ==
  /\ path # <<>>
  /\ path[1] # "."
  /\ path[1] # "/"
  /\ path # Tilde
  /\ ~Includes(path, "/")

\* the first entry at or after i that the loops of bindMountExcludes and
\* unmountExcludes act on (Len + 1: none)
RECURSIVE NextBind(_, _)
NextBind(list, i) ==
  IF i > Len(list) THEN i
  ELSE IF shouldMountExclude(list[i]) THEN i
  ELSE NextBind(list, i + 1)

(***************************************************************************)
(* init().                                                                 *)
(***************************************************************************)
\* init() is called; mountUnionFS is awaited
init ==
  /\ pc["init"] = "new"
  /\ pc' = [pc EXCEPT !["init"] = "mountUnionFS"]
  /\ UNCHANGED <<cfgVars, copy, fnVars, state, numFails, syncInterval, timerVars, wsVars,
                 mountVars, idx, cyc, tick, reportVars>>

\* bindMountExcludes from entry i on: the next bind mount starts with
\* mkdirp(source), or the loop ends and makeScratchDir is awaited
BindFrom(i) ==
  LET j == NextBind(exclude, i)
  IN /\ idx' = [idx EXCEPT !.init = j]
     /\ pc' = [pc EXCEPT !["init"] =
                 IF j <= Len(exclude) THEN "mkdirpSource" ELSE "makeScratchDir"]

\* await this.mountUnionFS() returned
init_mountUnionFS ==
  /\ pc["init"] = "mountUnionFS"
  /\ overlay' = TRUE
  /\ BindFrom(1)
  /\ UNCHANGED <<cfgVars, copy, fnVars, state, numFails, syncInterval, timerVars, wsVars,
                 binds, cyc, tick, reportVars>>

\* bindMountExcludes_mkdirp without the mkdirp of the upper directory
bindMountExcludes_mkdirp_SourceOnly ==
  /\ pc["init"] = "mkdirpSource"
  /\ pc' = [pc EXCEPT !["init"] = "mountBind"]
  /\ UNCHANGED <<cfgVars, copy, fnVars, state, numFails, syncInterval, timerVars, wsVars,
                 mountVars, idx, cyc, tick, reportVars>>

\* bindMountExcludes: mkdirp(source), then mkdirp(upper) returned; after
\* it, mount --bind is awaited
bindMountExcludes_mkdirp ==
  /\ pc["init"] \in {"mkdirpSource", "mkdirpUpper"}
  /\ pc' = [pc EXCEPT !["init"] =
              IF pc["init"] = "mkdirpSource" THEN "mkdirpUpper" ELSE "mountBind"]
  /\ UNCHANGED <<cfgVars, copy, fnVars, state, numFails, syncInterval, timerVars, wsVars,
                 mountVars, idx, cyc, tick, reportVars>>

\* bindMountExcludes: mount --bind returned
bindMountExcludes_mount ==
  /\ pc["init"] = "mountBind"
  /\ binds' = binds \cup {exclude[idx.init]}
  /\ BindFrom(idx.init + 1)
  /\ UNCHANGED <<cfgVars, copy, fnVars, state, numFails, syncInterval, timerVars, wsVars,
                 overlay, cyc, tick, reportVars>>

\* await this.makeScratchDir() returned; rm(error_txt) is awaited
init_makeScratchDir ==
  /\ pc["init"] = "makeScratchDir"
  /\ pc' = [pc EXCEPT !["init"] = "rm"]
  /\ UNCHANGED <<cfgVars, copy, fnVars, state, numFails, syncInterval, timerVars, wsVars,
                 mountVars, idx, cyc, tick, reportVars>>

\* init_rm where the error of rm(error_txt) is not caught: init() may reject
init_rm_Uncaught ==
  /\ pc["init"] = "rm"
  /\ \E ok \in BOOLEAN :
       pc' = [pc EXCEPT !["init"] = IF ok THEN "websocket" ELSE "failed"]
  /\ UNCHANGED <<cfgVars, copy, fnVars, state, numFails, syncInterval, timerVars, wsVars,
                 mountVars, idx, cyc, tick, reportVars>>

\* await rm(error_txt) returned or threw (ignored); initSyncRequestHandler
\* starts and awaits the websocket
init_rm ==
  /\ pc["init"] = "rm"
  /\ pc' = [pc EXCEPT !["init"] = "websocket"]
  /\ UNCHANGED <<cfgVars, copy, fnVars, state, numFails, syncInterval, timerVars, wsVars,
                 mountVars, idx, cyc, tick, reportVars>>

\* initSyncRequestHandler: the websocket is there; the handler is attached;
\* project_client.api() is awaited
initSyncRequestHandler_websocket ==
  /\ pc["init"] = "websocket"
  /\ websocket' = TRUE
  /\ listener' = TRUE
  /\ pc' = [pc EXCEPT !["init"] = "api"]
  /\ UNCHANGED <<cfgVars, copy, fnVars, state, numFails, syncInterval, timerVars, registered,
                 mountVars, idx, cyc, tick, reportVars>>

\* initSyncRequestHandler: await project_client.api() returned;
\* computeServerSyncRegister is awaited
initSyncRequestHandler_api ==
  /\ pc["init"] = "api"
  /\ pc' = [pc EXCEPT !["init"] = "register"]
  /\ UNCHANGED <<cfgVars, copy, fnVars, state, numFails, syncInterval, timerVars, wsVars,
                 mountVars, idx, cyc, tick, reportVars>>

\* initSyncRequestHandler: registered; init() calls syncLoop
initSyncRequestHandler_register ==
  /\ pc["init"] = "register"
  /\ registered' = TRUE
  /\ syncLoop([pc EXCEPT !["init"] = "done"], timers, timeout, FALSE)
  /\ UNCHANGED <<cfgVars, copy, fnVars, websocket, listener, mountVars, idx>>

\* init_throws with the error of mountUnionFS caught: init() goes on to
\* bindMountExcludes without the overlay
init_throws_MountCaught ==
  /\ pc["init"] \in {"mountUnionFS", "mkdirpSource", "mkdirpUpper", "mountBind",
                     "makeScratchDir", "websocket", "api", "register"}
  /\ IF pc["init"] = "mountUnionFS"
       THEN BindFrom(1)
       ELSE pc' = [pc EXCEPT !["init"] = "failed"] /\ UNCHANGED idx
  /\ UNCHANGED <<cfgVars, copy, fnVars, state, numFails, syncInterval, timerVars, wsVars,
                 mountVars, cyc, tick, reportVars>>

\* an await of init() threw: init() rejects
init_throws ==
  /\ pc["init"] \in {"mountUnionFS", "mkdirpSource", "mkdirpUpper", "mountBind",
                     "makeScratchDir", "websocket", "api", "register"}
  /\ pc' = [pc EXCEPT !["init"] = "failed"]
  /\ UNCHANGED <<cfgVars, copy, fnVars, state, numFails, syncInterval, timerVars, wsVars,
                 mountVars, idx, cyc, tick, reportVars>>

(***************************************************************************)
(* close().                                                                *)
(***************************************************************************)
\* close() up to await execa("fusermount")
close ==
  /\ pc["close"] = "idle"
  /\ state # "closed"
  /\ state' = "closed"
  /\ timeout' = NoTimer
  /\ timers' = IF timeout.pending THEN timers - 1 ELSE timers
  /\ stale' = FALSE
  /\ pc' = [pc EXCEPT !["close"] = "fusermount"]
  /\ UNCHANGED <<cfgVars, copy, fnVars, numFails, syncInterval, wsVars, mountVars, idx, cyc,
                 tick, reportVars>>

\* close() without the test of the state: a call on a closed instance goes
\* through the timer and on to fusermount again
close_closed_Reruns ==
  /\ state = "closed"
  /\ pc["close"] = "done"
  /\ timeout' = NoTimer
  /\ timers' = IF timeout.pending THEN timers - 1 ELSE timers
  /\ stale' = FALSE
  /\ pc' = [pc EXCEPT !["close"] = "fusermount"]
  /\ UNCHANGED <<cfgVars, copy, fnVars, state, numFails, syncInterval, wsVars, mountVars,
                 idx, cyc, tick, reportVars>>

\* close() when the state is closed already: it returns at once
close_closed ==
  /\ state = "closed"
  /\ UNCHANGED vars

\* unmountExcludes from entry i on: the next umount is awaited, or the loop
\* ends and close() removes the listener, if this.websocket is set
UnmountFrom(i) ==
  LET j == NextBind(exclude, i)
  IN /\ idx' = [idx EXCEPT !.close = j]
     /\ IF j <= Len(exclude)
          THEN /\ pc' = [pc EXCEPT !["close"] = "umount"]
               /\ UNCHANGED listener
          ELSE /\ pc' = [pc EXCEPT !["close"] = "done"]
               /\ listener' = IF websocket THEN FALSE ELSE listener

\* await execa("fusermount") returned (ok) or threw (logged)
close_fusermount ==
  /\ pc["close"] = "fusermount"
  /\ \E ok \in BOOLEAN : overlay' = IF ok THEN FALSE ELSE overlay
  /\ UnmountFrom(1)
  /\ UNCHANGED <<cfgVars, copy, fnVars, state, numFails, syncInterval, timerVars, websocket,
                 registered, binds, cyc, tick, reportVars>>

\* unmountExcludes whose failing umount is not caught in the loop: it ends
\* the loop, and close() catches it and removes the listener
unmountExcludes_umount_EndsLoop ==
  /\ pc["close"] = "umount"
  /\ \E ok \in BOOLEAN :
       /\ binds' = IF ok THEN binds \ {exclude[idx.close]} ELSE binds
       /\ UnmountFrom(IF ok THEN idx.close + 1 ELSE Len(exclude) + 1)
  /\ UNCHANGED <<cfgVars, copy, fnVars, state, numFails, syncInterval, timerVars, websocket,
                 registered, overlay, cyc, tick, reportVars>>

\* unmountExcludes: await execa("sudo", ["umount"]) returned (ok) or threw
\* (logged)
unmountExcludes_umount ==
  /\ pc["close"] = "umount"
  /\ \E ok \in BOOLEAN :
       binds' = IF ok THEN binds \ {exclude[idx.close]} ELSE binds
  /\ UnmountFrom(idx.close + 1)
  /\ UNCHANGED <<cfgVars, copy, fnVars, state, numFails, syncInterval, timerVars, websocket,
                 registered, overlay, cyc, tick, reportVars>>

(***************************************************************************)
(* Specifications.                                                         *)
(***************************************************************************)
\* the state after construction, for a run whose collaborators answer as e
\* says, with an exclude list of excludes and readTrackingFile as in tracking
Start(e, excludes, tracking) ==
  /\ env = e
  /\ exclude \in excludes
  /\ readTrackingFile \in tracking
  /\ syncIntervalMin = 1000 * DEFAULT_SYNC_INTERVAL_MIN_S
  /\ syncIntervalMax = 1000 * DEFAULT_SYNC_INTERVAL_MAX_S
  /\ state = "ready"
  /\ numFails = 0
  /\ syncInterval = syncIntervalMin
  /\ timeout = NoTimer
  /\ timers = 0
  /\ stale = FALSE
  /\ websocket = FALSE
  /\ listener = FALSE
  /\ registered = FALSE
  /\ overlay = FALSE
  /\ binds = {}
  /\ pc = [p \in Procs |-> IF p = "init" THEN "new" ELSE "idle"]
  /\ idx = [init |-> 0, close |-> 0]
  /\ cyc = [c \in Callers |-> NoCycle]
  /\ tick = NoTick
  /\ store = NoStatus
  /\ thr = [window |-> FALSE, pending |-> None]
  /\ copy = [i \in 1..MaxCopies |-> NoCopy]
  /\ scan = NoScan
  /\ tar = NoTar

InitSteps ==
  \/ init
  \/ init_mountUnionFS
  \/ init_makeScratchDir
  \/ init_rm
  \/ initSyncRequestHandler_websocket
  \/ initSyncRequestHandler_api
  \/ initSyncRequestHandler_register
  \/ init_throws

BindSteps ==
  \/ bindMountExcludes_mkdirp
  \/ bindMountExcludes_mount

CloseSteps ==
  \/ close
  \/ close_closed
  \/ close_fusermount

LoopSteps ==
  \/ timerFires
  \/ syncLoop_getDetailedState
  \/ syncLoop_getDetailedStateThrows

CycleSteps(c) ==
  \/ doSync_makeScratchDir(c)
  \/ doSync_api(c)
  \/ doSync_getComputeState(c)
  \/ doSync_writeFile(c)
  \/ doSync_syncFS(c)
  \/ doSync_step(c)
  \/ sync_catch(c)
  \/ sync_throw(c)

(***************************************************************************)
(* Spec: every trigger of a cycle (the timer, compute_server_sync_request, *)
(* sync() called from outside once init() has settled) against close(),    *)
(* with sync enabled and disabled.  The project has nothing to sync or a   *)
(* tar of files to receive; there are no whiteouts and no read tracking;     *)
(* every status publication succeeds.                                      *)
(***************************************************************************)
MainEnv == [whiteouts |-> {FALSE},
            manifests |-> {Manifest(FALSE, FALSE, FALSE), Manifest(FALSE, FALSE, TRUE)},
            pubs |-> {TRUE},
            elapsed |-> {0, MaxElapsed},
            throwers |-> Callers,
            timeouts |-> FALSE]

Init == Start(MainEnv, ExcludeOptions, {FALSE})

Next ==
  \/ InitSteps
  \/ BindSteps
  \/ LoopSteps
  \/ handleSyncRequest
  \/ (pc["init"] \in {"done", "failed"} /\ sync)
  \/ \E c \in Callers : CycleSteps(c)
  \/ throttleExpires
  \/ operatorClears
  \/ CloseSteps
  \/ unmountExcludes_umount

Spec == Init /\ [][Next]_vars

(***************************************************************************)
(* SpecCycle: the cycles of the loop and of compute_server_sync_request    *)
(* with every outcome of getComputeState and every manifest, with and      *)
(* without read tracking, sync enabled; only the cycles of the loop fail;  *)
(* close() is not called.                                                  *)
(***************************************************************************)
CycleEnv == [whiteouts |-> BOOLEAN,
             manifests |-> {Manifest(r, c, t) : r, c, t \in BOOLEAN},
             pubs |-> {TRUE},
             elapsed |-> {0},
             throwers |-> {"loop"},
             timeouts |-> TRUE]

InitCycle == Start(CycleEnv, {<<>>}, BOOLEAN)

NextCycle ==
  \/ InitSteps
  \/ LoopSteps
  \/ handleSyncRequest
  \/ \E c \in Callers :
       \/ CycleSteps(c)
       \/ doSync_sendFiles(c)
       \/ updateReadTracking_move(c)
       \/ updateReadTracking_end(c)
  \/ throttleExpires
  \/ operatorClears

SpecCycle == InitCycle /\ [][NextCycle]_vars

(***************************************************************************)
(* SpecMount: init() and close() over every exclude list; the cycle that   *)
(* the loop starts at the end of init() is not followed.                   *)
(***************************************************************************)
InitMount == Start(MainEnv, ExcludeLists, {FALSE})

NextMount ==
  \/ InitSteps
  \/ BindSteps
  \/ CloseSteps
  \/ unmountExcludes_umount

SpecMount == InitMount /\ [][NextMount]_vars

(***************************************************************************)
(* SpecCopy: one-off copy requests against init(), the cycles of the loop  *)
(* (which may fail) and close(), sync enabled; the project always has a    *)
(* tar of files to receive.                                                *)
(***************************************************************************)
CopyEnv == [whiteouts |-> {FALSE},
            manifests |-> {Manifest(FALSE, FALSE, TRUE)},
            pubs |-> {TRUE},
            elapsed |-> {0},
            throwers |-> {"loop"},
            timeouts |-> FALSE]

InitCopy == Start(CopyEnv, {<<>>}, {FALSE})

NextCopy ==
  \/ InitSteps
  \/ LoopSteps
  \/ CycleSteps("loop")
  \/ throttleExpires
  \/ CloseSteps
  \/ \E i \in 1..MaxCopies :
       \/ handleSyncRequest_copy(i)
       \/ handleSyncRequest_tar(i)

SpecCopy == InitCopy /\ [][NextCopy]_vars

(***************************************************************************)
(* SpecReport: the cycles of the loop, which may fail, with a status store *)
(* whose every publication may fail; sync enabled.                         *)
(***************************************************************************)
ReportEnv == [whiteouts |-> {FALSE},
              manifests |-> {Manifest(FALSE, FALSE, FALSE), Manifest(FALSE, FALSE, TRUE)},
              pubs |-> BOOLEAN,
              elapsed |-> {0},
              throwers |-> {"loop"},
              timeouts |-> FALSE]

InitReport == Start(ReportEnv, {<<>>}, {FALSE})

NextReport ==
  \/ InitSteps
  \/ LoopSteps
  \/ CycleSteps("loop")
  \/ throttleExpires
  \/ operatorClears

SpecReport == InitReport /\ [][NextReport]_vars

(***************************************************************************)
(* SpecLive: the cycles of the loop and of compute_server_sync_request     *)
(* (which may fail) with a push, a pull and read tracking, against         *)
(* close(); every call a cycle awaits returns or throws in the end (weak   *)
(* fairness of the steps of each caller's cycle).                          *)
(***************************************************************************)
LiveEnv == [whiteouts |-> {FALSE},
            manifests |-> {Manifest(FALSE, TRUE, TRUE)},
            pubs |-> {TRUE},
            elapsed |-> {0},
            throwers |-> Callers,
            timeouts |-> FALSE]

InitLive == Start(LiveEnv, {<<>>}, {TRUE})

\* the steps of the cycle of caller c: every await of sync() returning or
\* throwing
AwaitSettles(c) ==
  \/ CycleSteps(c)
  \/ doSync_sendFiles(c)
  \/ updateReadTracking_move(c)
  \/ updateReadTracking_end(c)

NextLive ==
  \/ InitSteps
  \/ LoopSteps
  \/ handleSyncRequest
  \/ \E c \in Callers : AwaitSettles(c)
  \/ throttleExpires
  \/ operatorClears
  \/ CloseSteps

SpecLive ==
  /\ InitLive
  /\ [][NextLive]_vars
  /\ \A c \in Callers : WF_vars(AwaitSettles(c))

(***************************************************************************)
(* SpecTar: the constructor with every compression option, and the calls   *)
(* of this.tar that follow.                                                *)
(***************************************************************************)
InitTar == Start(MainEnv, {<<>>}, {FALSE})

NextTar ==
  \/ constructor_compression
  \/ tar_call

SpecTar == InitTar /\ [][NextTar]_vars

(***************************************************************************)
(* SpecScan: getComputeState on every pair of walks over UpperPaths and    *)
(* UnionPaths with change times up to MaxTime.                             *)
(***************************************************************************)
InitScan == Start(MainEnv, {<<>>}, {FALSE})

NextScan == getComputeState

SpecScan == InitScan /\ [][NextScan]_vars

(***************************************************************************)
(* Properties.                                                             *)
(***************************************************************************)
\* the callers whose cycle body (__doSync) is in progress
InDoSync == {c \in Callers : pc[c] \in DoSyncPcs}

\* C1: whatever the interleaving of timer ticks, compute_server_sync_request
\* messages and direct sync() calls, at most one cycle body (__doSync) is in
\* progress, and while one is in progress no caller is held waiting to run
\* another: an overlapping invocation ends at once.
C1_AtMostOneCycle ==
  /\ Cardinality(InDoSync) <= 1
  /\ \A c \in Callers : pc[c] \in SyncPcs => state \in {"sync", "closed"}
  /\ state = "ready" => \A c \in Callers : pc[c] \notin SyncPcs

\* C1: a message-triggered cycle is in progress after init() while the loop's
\* timer is pending and a direct sync() can be called
C1_Witness ==
  /\ pc["msg"] \in DoSyncPcs
  /\ state = "sync"
  /\ pc["init"] = "done"
  /\ pc["loop"] = "idle"
  /\ pc["direct"] = "idle"
  /\ timers > 0

\* C2: sync() invoked while the state is sync or closed has no effect: state,
\* numFails and syncInterval are unchanged, no status is reported (neither
\* published nor left pending in the throttle), and no step of a cycle
\* (syncFS call, removal, tar transfer) is started.
C2_RejectedSyncNoEffect ==
  [][(state \in {"sync", "closed"} /\ sync)
       => UNCHANGED <<state, numFails, syncInterval, store, thr, pc, cyc,
                      timeout, timers, stale>>]_vars

\* C2: sync() can be called while a cycle of the loop is in progress after
\* two failures
C2_Witness ==
  /\ pc["init"] = "done"
  /\ state = "sync"
  /\ pc["loop"] \in DoSyncPcs
  /\ pc["direct"] = "idle"
  /\ numFails = 2

\* C3: with numFails at MAX_FAILURES_IN_A_ROW or above, (a) a timer tick
\* never goes straight into a cycle, (b) a tick goes on to a cycle only
\* when the status it read has no extra, (c) the tick that reads a status
\* without extra starts a cycle, and (d) when the cycle of such a tick
\* returns, numFails is 0.
C3_CircuitBreaker ==
  [][/\ (timerFires /\ numFails >= MAX_FAILURES_IN_A_ROW)
          => pc'["loop"] \notin SyncPcs
     /\ (pc["loop"] = "getDetailedState" /\ pc'["loop"] \in SyncPcs)
          => (store # NoStatus /\ ~store.extra)
     /\ (syncLoop_getDetailedState /\ tick.timer /\ store # NoStatus /\ ~store.extra)
          => pc'["loop"] \in DoSyncPcs
     /\ (tick.paused /\ pc["loop"] \in DoSyncPcs /\ pc'["loop"] = "idle")
          => numFails' = 0]_vars

\* C4: a timer tick that found numFails at the threshold starts a cycle only
\* on a status that an operator wrote: the component's own reports do not
\* resume the loop.
C4_OnlyOperatorResumes ==
  (tick.timer /\ tick.paused /\ pc["loop"] \in SyncPcs)
    => tick.observed.by = "operator"

\* a caller starts a cycle in this step
StartsCycle == \E c \in Callers : pc[c] \notin SyncPcs /\ pc'[c] \in SyncPcs

\* C5: once the state is closed it stays closed, no caller starts a cycle,
\* and a cycle that is in flight goes on to its end with the state closed.
C5_ClosedIsTerminal ==
  [][state = "closed" => (state' = "closed" /\ ~StartsCycle)]_vars

\* C5: the state is closed, close() has finished, and the cycle of the loop
\* that was in flight has reached the error logging of its catch
C5_Witness ==
  /\ state = "closed"
  /\ pc["close"] = "done"
  /\ pc["loop"] = "logSyncError"

\* C6: once the state is closed no timer is armed: the number of pending
\* loop timers never grows.
C6_NoTimerAfterClose ==
  [][state = "closed" => timers' <= timers]_vars

\* C7: with "~" or "." in the exclude list no cycle is in progress for the
\* loop or for compute_server_sync_request, and the only timer the loop arms
\* is the 60 s one.
C7_DisabledNeverSyncs ==
  Disabled =>
    /\ pc["loop"] \notin SyncPcs \cup {"getDetailedState"}
    /\ pc["msg"] \notin SyncPcs
    /\ timeout.pending => timeout.wait = DisabledWait

\* positions of init() inside the bind mount of one entry
BindPcs == {"mkdirpSource", "mkdirpUpper", "mountBind"}

\* C8 as claimed: with "~" or "." in the exclude list nothing is
\* bind-mounted and no entry is being mounted or unmounted.
C8_DisabledNoBinds ==
  Disabled =>
    /\ binds = {}
    /\ pc["init"] \notin BindPcs
    /\ pc["close"] # "umount"

\* C8 as amended: with "~" or "." in the exclude list, "~" and "." (like
\* every entry that is empty, hidden, absolute or nested) are never
\* bind-mounted or unmounted, while a bare top-level name of the list is
\* still bind-mounted by init() and unmounted by close().
C8_DisabledBindsBareOnly ==
  Disabled =>
    /\ binds \subseteq {Bare}
    /\ pc["init"] \in BindPcs => exclude[idx.init] = Bare
    /\ pc["close"] = "umount" => exclude[idx.close] = Bare
    /\ (Includes(exclude, Bare) /\ pc["close"] = "idle"
          /\ pc["init"] \in {"makeScratchDir", "rm", "websocket", "api",
                             "register", "done"})
         => Bare \in binds

\* C8: "~" is excluded together with a bare name, the bare name is
\* bind-mounted and close() is about to unmount it
C8_Witness ==
  /\ exclude = <<Tilde, Bare>>
  /\ binds = {Bare}
  /\ pc["close"] = "umount"
  /\ exclude[idx.close] = Bare

\* the body of the cycle of caller c returns in this step: from api.syncFS
\* or from the last step the manifest asked for, on to updateReadTracking
\* or to the end of sync()
Completes(c) ==
  /\ pc[c] \in {"syncFS", "rmWhiteouts", "rmRemote", "tarSend", "receiveFiles"}
  /\ pc'[c] \in {"rename", "idle"}

\* C9: a cycle that returns straight after api.syncFS, having found no
\* whiteouts and done no removal, push or pull, leaves syncInterval at
\* min(syncIntervalMax, 1.3 * syncInterval), which is neither below the
\* previous value nor above the maximum; a cycle that returns after a
\* removal, push or pull leaves it at syncIntervalMin; a cycle that found
\* whiteouts or was given a non-empty manifest does not return straight
\* after api.syncFS.
C9_AdaptiveInterval ==
  [][\A c \in Callers :
       /\ (Completes(c) /\ pc[c] = "syncFS")
            => /\ ~cyc[c].whiteouts
               /\ 10 * syncInterval' <= 13 * syncInterval
               /\ 10 * syncInterval' > 13 * syncInterval - 10
                    \/ syncInterval' = syncIntervalMax
               /\ syncInterval' >= syncInterval
               /\ syncInterval' <= syncIntervalMax
       /\ (Completes(c) /\ pc[c] # "syncFS")
            => /\ cyc[c].did \cup {StepOf(c)} # {}
               /\ cyc[c].isActive
               /\ syncInterval' = syncIntervalMin
       /\ (pc[c] = "syncFS" /\ cyc[c].whiteouts /\ pc'[c] # "syncFS")
            => pc'[c] \in {"rmWhiteouts", "logSyncError"}]_vars

\* C9: after two idle cycles in a row (10 s, 13 s, 16.9 s) a cycle has
\* removed files and pushed files and is pulling
C9_Witness ==
  \E c \in Callers :
    /\ syncInterval = 16900
    /\ pc[c] = "receiveFiles"
    /\ cyc[c].did = {"rmRemote", "sendFiles"}

\* C10: syncInterval stays between syncIntervalMin and syncIntervalMax.
C10_IntervalInBounds ==
  /\ syncIntervalMin <= syncIntervalMax
  /\ syncIntervalMin <= syncInterval
  /\ syncInterval <= syncIntervalMax

\* C10: the interval has reached the maximum while sync requests and the
\* loop have failed
C10_Witness ==
  /\ syncInterval = syncIntervalMax
  /\ numFails >= MAX_FAILURES_IN_A_ROW
  /\ pc["msg"] \in DoSyncPcs

\* the sync() that caller c awaited throws in this step, after its catch
\* logged the error
Throws(c) == pc[c] = "logSyncError" /\ pc'[c] = "idle"

\* the tick reset numFails on a cleared status and its sync() was rejected
LoopRejected ==
  /\ pc["loop"] = "getDetailedState"
  /\ pc'["loop"] = "idle"
  /\ numFails # 0
  /\ numFails' = 0

\* syncInterval' is min(syncIntervalMax, 1.5 * syncInterval)
BackedOff ==
  /\ 2 * syncInterval' <= 3 * syncInterval
  /\ syncInterval' <= syncIntervalMax
  /\ 2 * syncInterval' = 3 * syncInterval \/ syncInterval' = syncIntervalMax

\* C11: when the sync() the loop awaits throws (its cycle failed, or it was
\* rejected), syncInterval becomes min(syncIntervalMax, 1.5 * syncInterval);
\* when the sync() a compute_server_sync_request handler awaits throws,
\* syncInterval is unchanged.
C11_BackoffOnlyInLoop ==
  [][/\ (Throws("loop") \/ LoopRejected) => BackedOff
     /\ Throws("msg") => syncInterval' = syncInterval]_vars

\* C11: two cycles in a row have failed, one of the loop and one of a
\* message, and only the loop's backed off (10 s to 15 s)
C11_Witness ==
  /\ numFails = 2
  /\ syncInterval = 15000
  /\ state = "ready"
  /\ pc["loop"] = "idle"
  /\ pc["msg"] = "idle"
  /\ pc["direct"] = "idle"
  /\ pc["init"] = "done"
  /\ timers = 1

\* C12: the timer a tick arms when sync is not disabled waits
\* min(syncIntervalMax, syncInterval + elapsed), with syncInterval as the tick
\* leaves it and elapsed one of the durations a tick can take: at least
\* syncInterval unless capped, and never more than syncIntervalMax.
C12_WaitOfNextTick ==
  [][(timers' > timers /\ ~Disabled) =>
       /\ timeout'.pending
       /\ timeout'.wait <= syncIntervalMax
       /\ \/ timeout'.wait = syncIntervalMax
          \/ timeout'.wait - syncInterval' \in env.elapsed]_vars

\* C12: after an idle cycle (10 s to 13 s) that took MaxElapsed the timer
\* waits their sum, below the maximum
C12_Witness ==
  /\ timeout.pending
  /\ syncInterval = 13000
  /\ timeout.wait = 13000 + MaxElapsed
  /\ timeout.wait < syncIntervalMax
  /\ timers = 1

\* C13: in a cycle the whiteout removals come first, then the removals the
\* manifest asks for, then the pull from the project (receiveFiles), then
\* the push to the project (sendFiles): whatever step is in progress, only
\* steps that come before it in this order have been done.
C13_RemovalsPullPush ==
  \A c \in Callers :
    /\ pc[c] = "rmWhiteouts" => cyc[c].did = {}
    /\ pc[c] = "rmRemote" => cyc[c].did \subseteq {"rmWhiteouts"}
    /\ pc[c] = "receiveFiles" => cyc[c].did \subseteq {"rmWhiteouts", "rmRemote"}
    /\ pc[c] \in {"sendFiles", "tarSend"}
         => cyc[c].did \subseteq {"rmWhiteouts", "rmRemote", "receiveFiles"}

\* C14: the error status of every cycle whose body throws reaches the
\* status store: the catch of sync() publishes it or leaves it pending in
\* the throttle, and an error status that is pending stays pending until it
\* is published.
C14_ErrorStatusPublished ==
  [][/\ \A c \in Callers :
          (pc[c] \in DoSyncPcs /\ pc'[c] = "logSyncError")
            => (store'.state = "error" \/ thr'.pending.state = "error")
     /\ thr.pending.state = "error"
          => (thr'.pending.state = "error" \/ store'.state = "error")]_vars

\* the body of the cycle of caller c throws in this step
BodyThrows(c) == pc[c] \in DoSyncPcs /\ pc'[c] = "logSyncError"

\* the body of the cycle of caller c returns and sync() ends in this step
BodyReturns(c) == pc[c] \in DoSyncPcs /\ pc'[c] = "idle"

\* a tick that read a status other than an error with extra resets numFails
BreakerReset ==
  /\ pc["loop"] = "getDetailedState"
  /\ pc'["loop"] # "getDetailedState"
  /\ store # NoStatus
  /\ ~(store.extra /\ store.state = "error")
  /\ numFails' = 0

\* C15: a cycle whose body throws adds exactly one to numFails; when its
\* sync() ends, the state is ready again unless it is closed, numFails is
\* kept, and the loop, if it was the caller, arms its next timer; a cycle
\* that returns sets numFails to 0; no other step changes numFails except
\* the reset of the circuit breaker on a cleared error.
C15_FailCount ==
  [][/\ \A c \in Callers :
          /\ BodyThrows(c) => (numFails' = numFails + 1 /\ state' = state)
          /\ Throws(c) =>
               /\ numFails' = numFails
               /\ state' = IF state = "closed" THEN "closed" ELSE "ready"
               /\ c = "loop" => (timers' = timers + 1 /\ timeout'.pending)
          /\ BodyReturns(c) => numFails' = 0
     /\ numFails' # numFails =>
          \/ \E c \in Callers : BodyThrows(c) \/ BodyReturns(c)
          \/ BreakerReset]_vars

\* C15: the loop has failed twice in a row, the state is ready again and
\* the next tick is armed with the wait backed off twice
C15_Witness ==
  /\ numFails = 2
  /\ state = "ready"
  /\ syncInterval = 22500
  /\ pc["loop"] = "idle"
  /\ timers = 1
  /\ timeout.pending

MountFailed ==
  /\ pc["init"] \notin {"new", "mountUnionFS"}
  /\ ~overlay
  /\ pc["close"] = "idle"

\* C19: when mountUnionFS fails, init() has rejected and nothing else of
\* init() has happened: no bind mount, no websocket, no listener, no
\* registration, no tick of the loop and no timer; and once init() has
\* rejected it stays rejected and makes no bind mount, attaches no
\* listener, registers nothing and arms no timer later.
C19_MountFailureAborts ==
  [][/\ MountFailed' =>
          /\ pc'["init"] = "failed"
          /\ binds' = {}
          /\ ~websocket' /\ ~listener' /\ ~registered'
          /\ timers' = 0 /\ ~timeout'.set
          /\ pc'["loop"] = "idle"
     /\ pc["init"] = "failed" =>
          /\ pc'["init"] = "failed"
          /\ binds' \subseteq binds
          /\ websocket' = websocket
          /\ listener' => listener
          /\ registered' = registered
          /\ timers' <= timers]_vars

\* C19: the mount of the overlay failed with a bare name in the exclude
\* list, and close() has not been called
C19_Witness ==
  /\ MountFailed
  /\ pc["init"] = "failed"
  /\ exclude = <<Bare, Tilde>>

\* C20: close() unmounts the bind mounts of the excluded directories first
\* and the overlay after them: when the unmount of the overlay returns, no
\* bind mount is still mounted.
C20_BindsBeforeOverlay ==
  [][(pc["close"] = "fusermount" /\ pc'["close"] # "fusermount")
       => binds = {}]_vars

\* C16: a copy request that carries an id is answered with exactly one
\* acknowledgment with that id, success if the transfer returned and error
\* if it threw; a request without id gets none; nothing is written before
\* the transfer has settled and no handler call ends by throwing.
C16_CopyAcknowledged ==
  \A i \in 1..MaxCopies :
    /\ copy[i].pc # "thrown"
    /\ copy[i].pc = "tar" => copy[i].acks = <<>>
    /\ copy[i].pc = "done" =>
         copy[i].acks =
           IF copy[i].id.given
             THEN <<[id |-> copy[i].id.value,
                     event |-> IF copy[i].ok THEN "success" ELSE "error"]>>
             ELSE <<>>

\* the steps of the handler call i of a copy request
CopySteps(i) == copy'[i] # copy[i]

\* C17: a copy request with paths issues one transfer, tar.get for
\* copy_from_project_to_compute_server and tar.send for
\* copy_from_compute_server_to_project, and ends when that transfer has
\* settled; it is accepted while the state is ready and while it is sync;
\* its steps leave the state, the fail count, syncInterval, the timer, the
\* status and the position of every cycle (so no cycle is started and
\* api.syncFS is not called) as they are.
C17_CopyBypassesCycle ==
  /\ []((listener /\ copy[1].pc = "idle" /\ state \in {"ready", "sync"})
          => ENABLED handleSyncRequest_copy(1))
  /\ [][\A i \in 1..MaxCopies :
          /\ CopySteps(i) =>
               UNCHANGED <<state, numFails, syncInterval, timerVars, pc, cyc,
                           tick, reportVars>>
          /\ (copy[i].pc = "idle" /\ CopySteps(i) /\ copy'[i].paths) =>
               /\ copy'[i].pc = "tar"
               /\ copy'[i].call =
                    IF copy'[i].event = "copy_from_project_to_compute_server"
                      THEN "tar.get"
                      ELSE "tar.send"
          /\ copy[i].pc = "tar" =>
               /\ copy'[i].pc \in {"tar", "done"}
               /\ copy'[i].call = copy[i].call
               /\ copy'[i].event = copy[i].event
          /\ copy[i].pc \in {"done", "thrown"} => copy'[i] = copy[i]]_vars

C17_Witness ==
  /\ state = "sync"
  /\ pc["loop"] = "syncFS"
  /\ copy[1].pc = "done"
  /\ copy[1].call = "tar.send"
  /\ copy[1].event = "copy_from_compute_server_to_project"

\* the entries of the exclude list after entry i that unmountExcludes acts on
UnmountsAfter(i) ==
  {j \in (i + 1)..Len(exclude) : shouldMountExclude(exclude[j])}

\* C21: close() has no way out but its end: once it has started the state
\* is closed; whether fusermount or an umount succeeds or fails, the next
\* step is the umount of the next entry that is to be unmounted, and when
\* none is left close() ends, with no listener attached.
C21_CloseCompletes ==
  /\ [](pc["close"] # "idle" => state = "closed")
  /\ [][/\ (pc["close"] = "fusermount" /\ pc'["close"] # "fusermount") =>
             IF UnmountsAfter(0) = {}
               THEN pc'["close"] = "done" /\ ~listener'
               ELSE /\ pc'["close"] = "umount"
                    /\ \A j \in UnmountsAfter(0) : idx'.close <= j
                    /\ idx'.close \in UnmountsAfter(0)
        /\ (pc["close"] = "umount" /\ idx'.close # idx.close) =>
             IF UnmountsAfter(idx.close) = {}
               THEN pc'["close"] = "done" /\ ~listener'
               ELSE /\ pc'["close"] = "umount"
                    /\ \A j \in UnmountsAfter(idx.close) : idx'.close <= j
                    /\ idx'.close \in UnmountsAfter(idx.close)
        /\ pc["close"] = "done" => pc'["close"] = "done"]_vars

C21_Witness ==
  /\ pc["close"] = "done"
  /\ state = "closed"
  /\ exclude = <<Bare, Bare>>
  /\ overlay
  /\ binds = {Bare}
  /\ websocket
  /\ ~listener
  /\ idx.close = 3

\* the awaits of updateReadTracking
TrackingPcs == {"rename", "copyFile", "rm", "tarGet"}

\* C22: whatever await of updateReadTracking a cycle leaves, and however
\* (returned or threw), it goes on to the next await of updateReadTracking
\* or the cycle ends as a success: fail count 0, state ready (closed stays
\* closed), syncInterval as the cycle had set it, and no error status
\* reported; the catch of sync() is not entered.
C22_ReadTrackingNeverFails ==
  [][\A c \in Callers :
       (pc[c] \in TrackingPcs /\ pc'[c] # pc[c]) =>
         /\ pc'[c] \in TrackingPcs \cup {"idle"}
         /\ syncInterval' = syncInterval
         /\ thr'.pending.state # "error"
         /\ store' # store => store'.state # "error"
         /\ IF pc'[c] = "idle"
              THEN /\ numFails' = 0
                   /\ state' = IF state = "closed" THEN "closed" ELSE "ready"
              ELSE numFails' = numFails /\ state' = state]_vars

C22_Witness ==
  /\ readTrackingFile
  /\ pc["loop"] = "idle"
  /\ pc["msg"] = "idle"
  /\ state = "ready"
  /\ numFails = 0
  /\ syncInterval = 13000
  /\ store.state = "cache-files-from-project"
  /\ store.progress = 85
  /\ thr.pending.state = "ready"
  /\ timers = 1

\* the tar.get of copyFromProjectTar, the tar.send, and the removal against
\* the upper layer, among the positions of a cycle
IsPull(s) ==
  /\ Call(s).fn = "tar.get"
  /\ Call(s).arg = "copyFromProjectTar"
  /\ Includes(Call(s).extractArgs, "--delay-directory-restore")
IsPush(s) == Call(s).fn = "tar.send"
IsRemoval(s) == Call(s).fn = "remove" /\ Call(s).arg = "upper"

\* the calls (as steps) the cycle of c has awaited so far, the one it is
\* awaiting included
Issued(c) ==
  cyc[c].did \cup (IF Call(pc[c]).fn # "" /\ pc[c] # "tarGet"
                     THEN {StepOf(c)} ELSE {})

\* C23: the cycle is at no step twice, and the steps it is at are asked for
\* by the manifest api.syncFS returned: the tar.get of copyFromProjectTar
\* (with --delay-directory-restore) only if copyFromProjectTar is given,
\* tar.send only if copyFromCompute is non-empty, the removal against the
\* upper layer only if removeFromCompute is non-empty; and a cycle whose
\* body returns has done each of the three that the manifest asks for.
C23_TransfersFollowManifest ==
  /\ [](\A c \in Callers :
          /\ Call(pc[c]).fn # "" /\ pc[c] # "tarGet" => StepOf(c) \notin cyc[c].did
          /\ IsPull(pc[c]) => cyc[c].manifest.copyFromProjectTar
          /\ IsPush(pc[c]) => cyc[c].manifest.copyFromCompute
          /\ pc[c] = "sendFiles" => cyc[c].manifest.copyFromCompute
          /\ IsRemoval(pc[c]) => cyc[c].manifest.removeFromCompute
          /\ (pc[c] = "receiveFiles" /\ cyc[c].manifest = Manifest(FALSE, FALSE, TRUE))
               => cyc[c].did \subseteq {"rmWhiteouts"})
  /\ [][\A c \in Callers :
          Completes(c) =>
            /\ cyc[c].manifest.copyFromProjectTar <=> "receiveFiles" \in Issued(c)
            /\ cyc[c].manifest.copyFromCompute <=> "sendFiles" \in Issued(c)
            /\ cyc[c].manifest.removeFromCompute <=> "rmRemote" \in Issued(c)]_vars

C23_Witness ==
  /\ readTrackingFile
  /\ pc["loop"] = "receiveFiles"
  /\ cyc["loop"].manifest = Manifest(FALSE, FALSE, TRUE)
  /\ cyc["loop"].did = {}
  /\ cyc["loop"].todo = {"receiveFiles"}

\* C24: for every marker p_HIDDEN~ of the walk of the whiteout directory,
\* the computeState returned has an entry for p, it is negative, and its
\* magnitude is the change time of the marker, whether or not the walk of
\* the upper layer found p.
C24_WhiteoutIsNegative ==
  scan.done =>
    \A path \in DOMAIN scan.mtimes :
      \A p \in {SubSeq(path, 1, k) : k \in 0..Len(path)} :
        path = p \o WhiteSuffix =>
          /\ p \in DOMAIN scan.computeState
          /\ scan.computeState[p] < 0
          /\ -scan.computeState[p] = scan.mtimes[path]

C24_Witness ==
  /\ scan.done
  /\ Bare \in DOMAIN scan.upper
  /\ scan.upper[Bare] = 1
  /\ Bare \o WhiteSuffix \in DOMAIN scan.mtimes
  /\ scan.mtimes[Bare \o WhiteSuffix] = 2
  /\ scan.computeState[Bare] = -2
  /\ Nested \in DOMAIN scan.computeState
  /\ scan.computeState[Nested] = 1

\* sync() passes its tests in caller c in this step: it reports
\* get-compute-state
Starts(c) == pc[c] = "idle" /\ pc'[c] = "makeScratchDir"

\* updateReadTracking and then sync() end in caller c in this step: progress
\* 85 is reported, then ready
TrackingEnds(c) == pc[c] \in TrackingPcs /\ pc'[c] = "idle"

C26_ReportNeverFailsCycle ==
  [][/\ \A c \in Callers :
          /\ BodyReturns(c) =>
               /\ numFails' = 0
               /\ state' = IF state = "closed" THEN "closed" ELSE "ready"
          /\ BodyThrows(c) => numFails' = numFails + 1
     /\ (thr.window /\ ~thr'.window) =>
          /\ thr'.pending = None
          /\ store' = store \/ store' = Stored(thr.pending, "self")
     /\ (~thr.window /\ thr'.window) => (store' = store \/ store'.by = "self")]_vars

C26_Witness ==
  /\ store = NoStatus
  /\ ~thr.window
  /\ pc["init"] = "done"
  /\ pc["loop"] = "idle"
  /\ state = "ready"
  /\ numFails = 0
  /\ syncInterval = 16900
  /\ timers = 1

\* C27: a compression option that is given and falsy leaves this.tar the
\* tar primitives: they get the arguments of the call unchanged; with
\* "lz4", or with no option given, send and get both prepend "-I", "lz4" to
\* createArgs and to extractArgs and pass fn and HOME on; with any other
\* truthy option the constructor throws and this.tar is never called.
C27_CompressionValidated ==
  tar.mode # "" =>
    /\ (tar.option # Undefined /\ Falsy(tar.option)) =>
         (tar.mode = "raw" /\ tar.got = tar.called)
    /\ tar.option \in {Undefined, String("lz4")} =>
         /\ tar.mode = "lz4"
         /\ tar.called # NoArgs =>
              /\ tar.got.createArgs = <<"-I", "lz4">> \o tar.called.createArgs
              /\ tar.got.extractArgs = <<"-I", "lz4">> \o tar.called.extractArgs
              /\ tar.got.fn = tar.called.fn
              /\ tar.got.HOME = tar.called.HOME
    /\ (~Falsy(tar.option) /\ tar.option # String("lz4")) =>
         (tar.mode = "throws" /\ tar.called = NoArgs /\ tar.got = NoArgs)

C27_Witness ==
  /\ tar.option = String("lz4")
  /\ tar.called.fn = "get"
  /\ tar.called.extractArgs = <<"--keep-newer-files", "-x">>
  /\ tar.got.extractArgs = <<"-I", "lz4", "--keep-newer-files", "-x">>
  /\ tar.got.createArgs = <<"-I", "lz4", "-c", "--null", "--no-recursion",
                            "--verbatim-files-from", "--files-from",
                            "read-tracking">>

\* C28: until init() has completed its setup the state is init (unless
\* close() was called), and a caller is inside sync() only with the overlay
\* mounted (unless close() has started to unmount it).
C28_InitUntilSetupDone ==
  /\ (pc["init"] # "done" /\ state # "closed") => state = "init"
  /\ \A c \in Callers :
       pc[c] \in SyncPcs => (overlay \/ pc["close"] # "idle")

\* C29: the fail count never exceeds MAX_FAILURES_IN_A_ROW, and while it
\* is at the threshold and the persisted status is not cleared no caller
\* starts a cycle.
C29_PausedForEveryTrigger ==
  /\ [](numFails <= MAX_FAILURES_IN_A_ROW)
  /\ [][(numFails >= MAX_FAILURES_IN_A_ROW /\ ~Cleared(store)) => ~StartsCycle]_vars

\* the stage of init() a position belongs to, in the order of the code
Stage(p) ==
  CASE p = "new" -> 0
    [] p = "mountUnionFS" -> 1
    [] p \in {"mkdirpSource", "mkdirpUpper", "mountBind"} -> 2
    [] p = "makeScratchDir" -> 3
    [] p = "rm" -> 4
    [] p = "websocket" -> 5
    [] p \in {"api", "register"} -> 6
    [] p = "done" -> 7
    [] OTHER -> 8

\* the loop has been started: a tick is running or has armed a timer
LoopStarted == pc["loop"] # "idle" \/ timers > 0 \/ timeout.set

\* C30: init() moves from each stage to the next one only (it skips the
\* bind mounts when no entry is to be mounted) or fails; a failing rm of
\* error.txt does not fail it.  So while close() has not been called, bind
\* mounts exist only with the overlay mounted, the scratch directory and
\* all that follows come only with every bind mount done, the listener is
\* attached only after that, the registration only with the listener
\* attached, and the loop is started only once registered.
C30_InitOrder ==
  /\ [](pc["close"] = "idle" =>
          /\ binds # {} => overlay
          /\ Stage(pc["init"]) \in 2..7 => overlay
          /\ Stage(pc["init"]) \in 3..7 =>
               \A j \in UnmountsAfter(0) : exclude[j] \in binds
          /\ listener =>
               /\ websocket
               /\ overlay
               /\ \A j \in UnmountsAfter(0) : exclude[j] \in binds
          /\ websocket <=> (Stage(pc["init"]) \in 6..7 \/ (pc["init"] = "failed" /\ listener))
          /\ registered => listener
          /\ LoopStarted => (registered /\ pc["init"] = "done")
          /\ pc["init"] = "done" => registered)
  /\ [][pc'["init"] # pc["init"] =>
          \/ pc'["init"] = "failed" /\ pc["init"] \notin {"new", "rm", "done"}
          \/ /\ pc'["init"] # "failed"
             /\ Stage(pc'["init"]) \in {Stage(pc["init"]), Stage(pc["init"]) + 1}
          \/ /\ pc["init"] = "mountUnionFS"
             /\ pc'["init"] = "makeScratchDir"
             /\ UnmountsAfter(0) = {}]_vars

C30_Witness ==
  /\ pc["init"] = "done"
  /\ pc["close"] = "idle"
  /\ exclude = <<Bare, Hidden>>
  /\ overlay
  /\ binds = {Bare}
  /\ listener
  /\ registered
  /\ LoopStarted

\* C31: read tracking awaits rename, copyFile, rm and tar.get in this order:
\* each is reached only from the one before it, the rename only from the
\* cycle body with the tracking file configured; a relocation step either
\* goes on to the next one or ends the cycle without a tar.get; the tar.get
\* extracts with --keep-newer-files; without a tracking file no caller is
\* ever in read tracking and no cache-files status is reported.
C31_RelocateThenGet ==
  /\ [](\A c \in Callers :
          /\ pc[c] \in TrackingPcs => readTrackingFile
          /\ pc[c] = "tarGet" =>
               /\ Call(pc[c]).fn = "tar.get"
               /\ Call(pc[c]).extractArgs = <<"--keep-newer-files", "-x">>
          /\ ~readTrackingFile =>
               /\ store.state # "cache-files-from-project"
               /\ thr.pending.state # "cache-files-from-project")
  /\ [][\A c \in Callers : pc'[c] # pc[c] =>
          /\ pc'[c] = "rename" => pc[c] \in DoSyncPcs \ TrackingPcs
          /\ pc'[c] = "copyFile" => pc[c] = "rename"
          /\ pc'[c] = "rm" => pc[c] = "copyFile"
          /\ pc'[c] = "tarGet" => pc[c] = "rm"
          /\ pc[c] = "rename" => pc'[c] \in {"copyFile", "idle"}
          /\ pc[c] = "copyFile" => pc'[c] \in {"rm", "idle"}
          /\ pc[c] = "rm" => pc'[c] \in {"tarGet", "idle"}
          /\ pc[c] = "tarGet" => pc'[c] = "idle"]_vars

C31_Witness ==
  /\ readTrackingFile
  /\ pc["loop"] = "tarGet"
  /\ pc["msg"] = "idle"
  /\ state = "sync"
  /\ store.state = "cache-files-from-project"

\* C32: the entries init() bind-mounts and close() unmounts are exactly the
\* bare names of the exclude list (non-empty, not starting with "." or "/",
\* containing no "/", not "~"): only bare names are ever mounted, being
\* mounted or being unmounted; once bindMountExcludes has returned and
\* close() has not been called every bare name of the list is mounted; the
\* loop of init() and the loop of close() go through the bare names of the
\* list in its order, leaving none out; and a bind mount is made only after
\* mkdirp of the source and then mkdirp of the upper directory returned for
\* that entry.
C32_BindsExactlyBareNames ==
  /\ [](/\ \A path \in Paths :
             shouldMountExclude(path) <=>
               /\ Len(path) > 0
               /\ path[1] # "."
               /\ path[1] # "/"
               /\ \A k \in 1..Len(path) : path[k] # "/"
               /\ path # <<"~">>
        /\ \A path \in binds : shouldMountExclude(path)
        /\ pc["init"] \in BindPcs => idx.init \in UnmountsAfter(0)
        /\ pc["close"] = "umount" => idx.close \in UnmountsAfter(0)
        /\ (Stage(pc["init"]) \in 3..7 /\ pc["close"] = "idle") =>
             \A j \in UnmountsAfter(0) : exclude[j] \in binds)
  /\ [][/\ (pc'["init"] = "mkdirpSource" /\ pc["init"] # "mkdirpSource") =>
             /\ pc["init"] \in {"mountUnionFS", "mountBind"}
             /\ idx'.init \in UnmountsAfter(IF pc["init"] = "mountUnionFS" THEN 0
                                            ELSE idx.init)
             /\ \A k \in UnmountsAfter(IF pc["init"] = "mountUnionFS" THEN 0
                                       ELSE idx.init) : idx'.init <= k
        /\ (pc'["init"] = "makeScratchDir" /\ pc["init"] # "makeScratchDir") =>
             UnmountsAfter(IF pc["init"] = "mountUnionFS" THEN 0
                           ELSE idx.init) = {}
        /\ (pc'["init"] = "mkdirpUpper" /\ pc["init"] # "mkdirpUpper") =>
             pc["init"] = "mkdirpSource" /\ idx'.init = idx.init
        /\ (pc'["init"] = "mountBind" /\ pc["init"] # "mountBind") =>
             pc["init"] = "mkdirpUpper" /\ idx'.init = idx.init
        /\ ~(binds' \subseteq binds) =>
             /\ pc["init"] = "mountBind"
             /\ binds' = binds \cup {exclude[idx.init]}
        /\ ~(binds \subseteq binds') =>
             /\ pc["close"] = "umount"
             /\ binds' = binds \ {exclude[idx.close]}
        /\ (pc'["close"] = "umount" /\ idx'.close # idx.close) =>
             /\ pc["close"] \in {"fusermount", "umount"}
             /\ idx'.close \in UnmountsAfter(IF pc["close"] = "fusermount" THEN 0
                                             ELSE idx.close)
             /\ \A k \in UnmountsAfter(IF pc["close"] = "fusermount" THEN 0
                                       ELSE idx.close) : idx'.close <= k
        /\ (pc'["close"] = "done" /\ pc["close"] # "done") =>
             UnmountsAfter(IF pc["close"] = "fusermount" THEN 0
                           ELSE idx.close) = {}]_vars

C32_Witness ==
  /\ exclude = <<Hidden, Bare>>
  /\ pc["init"] = "done"
  /\ pc["close"] = "done"
  /\ idx.init = 3
  /\ idx.close = 3
  /\ binds = {}
  /\ ~overlay

\* the positions of __doSync before updateReadTracking
BodyPcs == DoSyncPcs \ TrackingPcs

\* C33: while a cycle is in its body (before read tracking) its own steps
\* leave syncInterval alone; the step in which an await of the body throws
\* leaves syncInterval and the set of steps done as they are, and the
\* caller then only awaits logSyncError and ends the cycle: no step is
\* started after the throw.  Until api.syncFS has returned no removal and no
\* transfer is done or under way, so a failing api.syncFS leaves all of
\* them undone.
C33_ThrowEndsBody ==
  /\ [](\A c \in Callers :
          /\ pc[c] \in {"makeScratchDir", "api", "getComputeState", "writeFile",
                        "syncFS"} =>
               cyc[c].did = {} /\ cyc[c].todo = {}
          /\ pc[c] = "logSyncError" =>
               cyc[c].did \cap cyc[c].todo = {})
  /\ [][\A c \in Callers :
          /\ (pc[c] \in BodyPcs /\ pc'[c] # pc[c] /\ pc'[c] \in BodyPcs \cup {"logSyncError"}) =>
               syncInterval' = syncInterval
          /\ (pc[c] \in BodyPcs /\ pc'[c] = "logSyncError") =>
               /\ cyc'[c].did = cyc[c].did
               /\ cyc'[c].todo = cyc[c].todo
               /\ pc[c] = "syncFS" => cyc'[c].did = {}
          /\ (pc[c] = "logSyncError" /\ pc'[c] # pc[c]) =>
               /\ pc'[c] = "idle"
               /\ cyc'[c] = NoCycle
               /\ syncInterval' = IF c = "loop" THEN Backoff(syncInterval)
                                  ELSE syncInterval]_vars

\* C33: the push of a cycle threw after the whiteouts were removed; the
\* pull the manifest asks for is not started
C33_Witness ==
  /\ pc["loop"] = "logSyncError"
  /\ cyc["loop"].manifest = Manifest(FALSE, TRUE, TRUE)
  /\ cyc["loop"].did = {"rmWhiteouts"}
  /\ cyc["loop"].todo = {"sendFiles", "receiveFiles"}
  /\ syncInterval = 13000
  /\ numFails = 1

\* C34: with close() not called and no direct sync() under way, the tick
\* that resets numFails to 0 on a cleared error starts a cycle in that same
\* step: numFails is never reset by a tick whose sync() is rejected,
\* whatever sync requests arrive while the tick awaits the status.
C34_ResetStartsCycle ==
  [][(BreakerReset /\ state # "closed" /\ pc["direct"] = "idle")
       => pc'["loop"] \in DoSyncPcs]_vars

\* C35: once close() has returned, the handler is not attached to the
\* websocket, and no message starts a cycle or a one-off transfer, however
\* close() and init() interleave.
C35_ClosedDetachesHandler ==
  /\ [](pc["close"] = "done" => ~listener)
  /\ [][pc["close"] = "done" =>
          /\ ~StartsCycle
          /\ \A i \in 1..MaxCopies :
               copy[i].pc = "idle" => copy'[i].pc \notin {"tar", "done"}]_vars

\* C36: at most one loop timer is pending, and none while a tick is under
\* way; a step that ends a tick (after a cycle that returned or threw, after
\* a rejected sync(), after the status read of a paused tick, or, for a tick
\* that skips or is disabled, the step of the timer itself) leaves exactly
\* one timer pending, armed in that step; and a timer is armed by no other
\* step.
C36_OneTimer ==
  /\ [](/\ timers <= 1
        /\ timers = 1 => pc["loop"] = "idle"
        /\ timeout.pending => timers = 1)
  /\ [][/\ (pc["loop"] # "idle" /\ pc'["loop"] = "idle") =>
             /\ timers = 0
             /\ timers' = 1
             /\ timeout'.pending
        /\ (timerFires \/ initSyncRequestHandler_register) =>
             IF pc'["loop"] = "idle"
               THEN timers' = 1 /\ timeout'.pending
               ELSE timers' = 0
        /\ timers' > timers =>
             \/ pc["loop"] # "idle" /\ pc'["loop"] = "idle"
             \/ initSyncRequestHandler_register]_vars

\* C36: close() has returned, and the tick that was under way when it was
\* called has armed the one pending timer
C36_Witness ==
  /\ state = "closed"
  /\ pc["close"] = "done"
  /\ pc["loop"] = "idle"
  /\ pc["init"] = "done"
  /\ timers = 1
  /\ timeout.pending
  /\ numFails = 1

\* C37: given that every call a cycle awaits returns or throws in the end,
\* whenever the state is sync it is later ready or closed, and a caller
\* that is in a cycle is later out of it, whether the cycle returns or
\* fails.
C37_CycleEnds ==
  /\ (state = "sync") ~> (state \in {"ready", "closed"})
  /\ \A c \in Callers : (pc[c] \in SyncPcs) ~> (pc[c] = "idle")

\* C37: a failed cycle of a sync request has ended and the state is ready
\* again
C37_Witness ==
  /\ state = "ready"
  /\ numFails = 1
  /\ pc["msg"] = "idle"
  /\ pc["loop"] = "idle"
  /\ store.state = "ready"
  /\ thr.pending.state = "ready"
  /\ pc["close"] = "idle"
  /\ timers = 0

\* no cycle is in progress and the throttle window has ended
Quiet == ~thr.window /\ \A c \in Callers : pc[c] \notin SyncPcs

\* C38: the step in which a cycle returns makes the ready report, with
\* progress 100 and timeout 3 + syncInterval, the last report: it is
\* published at once or it is the one pending in the throttle window; while
\* no cycle is in progress and none starts, the store changes only at the
\* end of the window, to the pending report, or by the operator; so
\* whenever no cycle is in progress and the window has ended, the persisted
\* status, if any, is ready with progress 100, never an intermediate one.
C38_ReadyIsLast ==
  /\ [](Quiet /\ store # NoStatus =>
          /\ store.state = "ready"
          /\ store.progress = 100
          /\ ~store.extra)
  /\ [][/\ \A c \in Callers : BodyReturns(c) =>
             IF thr'.pending # None
               THEN thr'.pending = R_Ready(syncInterval')
               ELSE store' = Stored(R_Ready(syncInterval'), "self")
        /\ (\A c \in Callers : pc[c] \notin SyncPcs /\ pc'[c] \notin SyncPcs) =>
             \/ UNCHANGED <<store, thr>>
             \/ /\ thr.window
                /\ ~thr'.window
                /\ store' = IF thr.pending # None THEN Stored(thr.pending, "self")
                            ELSE store
             \/ /\ store'.by = "operator"
                /\ thr' = thr]_vars

\* C38: a cycle with read tracking has returned, the window has ended, and
\* the persisted status is the ready report with the timeout of the
\* interval the cycle left
C38_Witness ==
  /\ Quiet
  /\ readTrackingFile
  /\ pc["init"] = "done"
  /\ pc["loop"] = "idle"
  /\ numFails = 0
  /\ syncInterval = 13000
  /\ store = Stored(R_Ready(13000), "self")
  /\ store.timeout = 16000

\* C39: a call of close() on a closed instance changes nothing; so once the
\* state is closed no unmount sequence is started again, and once close()
\* has returned it stays returned, nothing is unmounted, the timer handle
\* is not cleared and the listener is not removed.
C39_CloseIdempotent ==
  [][/\ close_closed => UNCHANGED vars
     /\ state = "closed" =>
          /\ state' = "closed"
          /\ pc'["close"] = "fusermount" => pc["close"] = "fusermount"
     /\ (state = "closed" /\ pc["close"] = "done") =>
          /\ pc'["close"] = "done"
          /\ idx'.close = idx.close
          /\ overlay => overlay'
          /\ binds \subseteq binds'
          /\ listener => listener'
          /\ timeout.set => timeout'.set
          /\ timers' >= timers]_vars

\* C39: close() has returned on an instance whose init() went on after it:
\* the overlay and a bind mount are there, the handler is attached and a
\* timer is pending, so a second close() that ran again would have work to
\* do
C39_Witness ==
  /\ state = "closed"
  /\ pc["close"] = "done"
  /\ pc["init"] = "done"
  /\ exclude = <<Tilde, Bare>>
  /\ overlay
  /\ binds = {Bare}
  /\ listener
  /\ timers = 1
  /\ timeout.pending

=============================================================================
